---- MODULE Spec2Model ----
(***************************************************************************)
(* Synapse voice/text commander: the regex intent parser, the context      *)
(* enhancer, the command dispatcher and the remote service clients,       *)
(* modelled from the Python sources.  Text is a TLA+ string; positions     *)
(* are 0-based offsets between characters, as in Python's re module.       *)
(***************************************************************************)
EXTENDS Integers, Sequences, FiniteSets, TLC

VARIABLES
    text,           \* parser: the raw text handed to CommandParser.parse
    command,        \* parser: the ParsedCommand returned, or NoCommand
    tried,          \* parser: the patterns searched by the last parse call, in order
    phase,          \* dispatcher process: start, interactive, exited, done, crashed
    apiKey,         \* environment: GOOGLE_API_KEY is configured
    markerProto,    \* environment: the marker proto modules can be imported
    crew,           \* Synapse.crew: None or the SynapseCrew handle
    marker_client,  \* Synapse.marker_client: None or the MarkerClient handle
    console,        \* what the last command printed, in order
    calls,          \* the collaborator calls the last command made, in order
    written,        \* the files the last command wrote
    lastCommand,    \* the last command: its handler, its target, the LLM
                    \* exception inside it and the exception that left it
    available,      \* clients: the classes whose protobuf modules were imported
    channels,       \* clients: every gRPC channel created so far, open or closed
    client,         \* clients: a client object a caller keeps: channel and stub
    lastResult,     \* clients: what the last call on a client gave its caller
    listener,       \* voice: a continuous listen loop, what it heard and did
    enhanced,       \* enhancer: the parameters of `command` after each enhance call
    writer,         \* writer: generated content, the output files, the last read
    saves,          \* writer: the clock, the last save call and how often it was repeated
    live,           \* live voice: the session of SynapseLive.run and its five tasks
    notified        \* voice: the VoiceInput.listen calls, their status callbacks and results

parserVars == <<text, command, tried>>

dispatcherVars ==
    <<phase, apiKey, markerProto, crew, marker_client, console, calls, written,
      lastCommand>>

clientVars == <<available, channels, client, lastResult>>

adapterVars == <<listener, enhanced, writer, saves, live, notified>>

\* the adapter variables other than the one a specification is about
exceptListener == <<enhanced, writer, saves, live, notified>>
exceptEnhanced == <<listener, writer, saves, live, notified>>
exceptWriter == <<listener, enhanced, saves, live, notified>>
exceptSaves == <<listener, enhanced, live, notified>>
exceptLive == <<listener, enhanced, writer, saves, notified>>
exceptNotified == <<listener, enhanced, writer, saves, live>>

vars == <<parserVars, dispatcherVars, clientVars, adapterVars>>

-----------------------------------------------------------------------------
(* Characters and strings                                                  *)

\* Python's None where a string is optional; "<" occurs in no modelled input
None == "<None>"

UpperChars == "ABCDEFGHIJKLMNOPQRSTUVWXYZ"
LowerChars == "abcdefghijklmnopqrstuvwxyz"
DigitChars == "0123456789"

CharAt(s, i) == SubSeq(s, i, i)

CharsOf(s) == {CharAt(s, i) : i \in 1..Len(s)}

\* str.isspace() / regex \s for the characters the inputs use
IsSpace(c) == c \in {" ", "\t", "\n"}

\* str.lower() on one character
LowerMap ==
    [c \in CharsOf(UpperChars) |->
        CharAt(LowerChars, CHOOSE i \in 1..Len(UpperChars) : CharAt(UpperChars, i) = c)]

LowerChar(c) == IF c \in DOMAIN LowerMap THEN LowerMap[c] ELSE c

RECURSIVE LowerFrom(_, _)
LowerFrom(s, i) ==
    IF i > Len(s) THEN "" ELSE LowerChar(CharAt(s, i)) \o LowerFrom(s, i + 1)

\* str.lower()
Lower(s) == LowerFrom(s, 1)

\* str.strip(): leading and trailing whitespace removed
Strip(s) ==
    LET nonspace == {i \in 1..Len(s) : ~IsSpace(CharAt(s, i))}
    IN  IF nonspace = {} THEN ""
        ELSE LET first == CHOOSE i \in nonspace : \A j \in nonspace : i <= j
                 last  == CHOOSE i \in nonspace : \A j \in nonspace : i >= j
             IN  SubSeq(s, first, last)

\* `w in s` for strings
Contains(s, w) ==
    \E i \in 0..(Len(s) - Len(w)) : SubSeq(s, i + 1, i + Len(w)) = w

RECURSIVE ConcatAll(_)
ConcatAll(ss) ==
    IF ss = <<>> THEN <<>> ELSE Head(ss) \o ConcatAll(Tail(ss))

-----------------------------------------------------------------------------
(* Regular expressions: the subset of Python `re` syntax PATTERNS uses.   *)
(* A pattern is compiled with re.IGNORECASE and its literals are lower     *)
(* case, so it is matched against the lower-cased text.                    *)

Lit(s)  == [k |-> "lit", s |-> s]        \* literal characters
Alt(rs) == [k |-> "alt", rs |-> rs]      \* (?:a|b|c), tried left to right
Cat(rs) == [k |-> "cat", rs |-> rs]      \* concatenation
Opt(r)  == [k |-> "opt", r |-> r]        \* r? (greedy)
Plus(c) == [k |-> "plus", c |-> c]       \* c+ (greedy) over a character class
Star(c) == [k |-> "star", c |-> c]       \* c* (greedy) over a character class
One(c)  == [k |-> "one", c |-> c]        \* one character of a class
Grp(r)  == [k |-> "grp", r |-> r]        \* capturing group 1
Bol     == [k |-> "bol"]                 \* ^
Eol     == [k |-> "eol"]                 \* $

\* character classes: \s, and . (anything but a newline)
InClass(c, ch) ==
    IF c = "space" THEN IsSpace(ch) ELSE ch # "\n"

RECURSIVE RunLen(_, _, _)
\* the length of the longest run of characters of class c starting at offset i
RunLen(c, s, i) ==
    IF i < Len(s) /\ InClass(c, CharAt(s, i + 1)) THEN 1 + RunLen(c, s, i + 1) ELSE 0

NoGroup == <<-1, -1>>

RECURSIVE Match(_, _, _, _)
RECURSIVE MatchCat(_, _, _, _)
\* every way r matches s at offset i, in the order the backtracking matcher
\* tries them: a sequence of <<end offset, span of group 1>>
Match(r, s, i, cap) ==
    CASE r.k = "lit" ->
            IF i + Len(r.s) <= Len(s) /\ SubSeq(s, i + 1, i + Len(r.s)) = r.s
            THEN << <<i + Len(r.s), cap>> >> ELSE <<>>
      [] r.k = "alt" ->
            ConcatAll([n \in 1..Len(r.rs) |-> Match(r.rs[n], s, i, cap)])
      [] r.k = "cat" ->
            MatchCat(r.rs, 1, s, << <<i, cap>> >>)
      [] r.k = "opt" ->
            Match(r.r, s, i, cap) \o << <<i, cap>> >>
      [] r.k = "plus" ->
            LET run == RunLen(r.c, s, i)
            IN  [n \in 1..run |-> <<i + run - n + 1, cap>>]
      [] r.k = "star" ->
            LET run == RunLen(r.c, s, i)
            IN  [n \in 1..(run + 1) |-> <<i + run - n + 1, cap>>]
      [] r.k = "one" ->
            IF i < Len(s) /\ InClass(r.c, CharAt(s, i + 1))
            THEN << <<i + 1, cap>> >> ELSE <<>>
      [] r.k = "grp" ->
            LET inner == Match(r.r, s, i, cap)
            IN  [n \in 1..Len(inner) |-> <<inner[n][1], <<i, inner[n][1]>> >>]
      [] r.k = "bol" ->
            IF i = 0 THEN << <<i, cap>> >> ELSE <<>>
      [] r.k = "eol" ->
            IF i = Len(s) \/ (i = Len(s) - 1 /\ CharAt(s, Len(s)) = "\n")
            THEN << <<i, cap>> >> ELSE <<>>

MatchCat(rs, n, s, acc) ==
    IF n > Len(rs) \/ acc = <<>> THEN acc
    ELSE MatchCat(rs, n + 1, s,
            ConcatAll([q \in 1..Len(acc) |-> Match(rs[n], s, acc[q][1], acc[q][2])]))

NoMatch == [found |-> FALSE, start |-> -1, end |-> -1, group |-> NoGroup]

RECURSIVE SearchFrom(_, _, _)
SearchFrom(r, s, i) ==
    IF i > Len(s) THEN NoMatch
    ELSE LET ms == Match(r, s, i, NoGroup)
         IN  IF ms # <<>>
             THEN [found |-> TRUE, start |-> i, end |-> ms[1][1], group |-> ms[1][2]]
             ELSE SearchFrom(r, s, i + 1)

\* pattern.search(text) for a pattern compiled with re.IGNORECASE, given the
\* lower-cased text: the leftmost match, and among the matches there the
\* first one the matcher finds
SearchLowered(r, low) == SearchFrom(r, low, 0)

Search(r, s) == SearchLowered(r, Lower(s))

\* match.group(1) on the original text, None when group 1 did not take part
Group1(m, s) ==
    IF m.group = NoGroup THEN None ELSE SubSeq(s, m.group[1] + 1, m.group[2])

-----------------------------------------------------------------------------
(* CommandType and CommandParser.PATTERNS                                  *)

\* class CommandType, in declaration order
CommandTypeOrder ==
    << "GENERATE_SCENARIOS", "GENERATE_PLAYWRIGHT", "DICTATE_SCENARIO",
       "GENERATE_FROM_FILE", "CODE_REVIEW", "MARKER_RUN", "MARKER_PREVIEW",
       "MARKER_ROLLBACK", "MARKER_ANALYZE", "HELP", "EXIT", "UNKNOWN" >>

CommandType == {CommandTypeOrder[i] : i \in 1..Len(CommandTypeOrder)}

TypeIndex(t) == CHOOSE i \in 1..Len(CommandTypeOrder) : CommandTypeOrder[i] = t

WS1 == Plus("space")                      \* \s+
WS0 == Star("space")                      \* \s*
AnyChar == One("dot")                     \* .
Target == Grp(Plus("dot"))                \* (.+)
OptWord(w) == Opt(Cat(<<Lit(w), WS1>>))   \* (?:w\s+)?
Words(ws) == Alt([n \in 1..Len(ws) |-> Lit(ws[n])])   \* (?:a|b|c)
IdWord == Words(<<"id", "ids", "marker">>)             \* (?:id|ids|marker)

GenerateScenariosPatterns == <<
    \* (?:generate|create|write)\s+(?:test\s+)?scenarios?\s+(?:for\s+)?(.+)
    Cat(<<Words(<<"generate", "create", "write">>), WS1, OptWord("test"),
          Lit("scenario"), Opt(Lit("s")), WS1, OptWord("for"), Target>>),
    \* (?:make|build)\s+(?:test\s+)?scenarios?\s+(?:for\s+)?(.+)
    Cat(<<Words(<<"make", "build">>), WS1, OptWord("test"),
          Lit("scenario"), Opt(Lit("s")), WS1, OptWord("for"), Target>>),
    \* scenarios?\s+(?:for\s+)?(.+)
    Cat(<<Lit("scenario"), Opt(Lit("s")), WS1, OptWord("for"), Target>>) >>

GeneratePlaywrightPatterns == <<
    \* (?:generate|create|write)\s+playwright\s+(?:tests?\s+)?(?:for\s+)?(.+)
    Cat(<<Words(<<"generate", "create", "write">>), WS1, Lit("playwright"), WS1,
          Opt(Cat(<<Lit("test"), Opt(Lit("s")), WS1>>)), OptWord("for"), Target>>),
    \* (?:make|build)\s+playwright\s+(?:tests?\s+)?(?:for\s+)?(.+)
    Cat(<<Words(<<"make", "build">>), WS1, Lit("playwright"), WS1,
          Opt(Cat(<<Lit("test"), Opt(Lit("s")), WS1>>)), OptWord("for"), Target>>),
    \* playwright\s+(?:tests?\s+)?(?:for\s+)?(.+)
    Cat(<<Lit("playwright"), WS1,
          Opt(Cat(<<Lit("test"), Opt(Lit("s")), WS1>>)), OptWord("for"), Target>>),
    \* (?:generate|create)\s+(?:e2e|end.to.end)\s+tests?\s+(?:for\s+)?(.+)
    Cat(<<Words(<<"generate", "create">>), WS1,
          Alt(<<Lit("e2e"),
                Cat(<<Lit("end"), AnyChar, Lit("to"), AnyChar, Lit("end")>>)>>),
          WS1, Lit("test"), Opt(Lit("s")), WS1, OptWord("for"), Target>>) >>

DictateScenarioPatterns == <<
    \* dictate\s+(?:a\s+)?(?:test\s+)?scenario
    Cat(<<Lit("dictate"), WS1, OptWord("a"), OptWord("test"), Lit("scenario")>>),
    \* record\s+(?:a\s+)?(?:test\s+)?scenario
    Cat(<<Lit("record"), WS1, OptWord("a"), OptWord("test"), Lit("scenario")>>),
    \* start\s+dictation
    Cat(<<Lit("start"), WS1, Lit("dictation")>>) >>

GenerateFromFilePatterns == <<
    \* (?:generate|create)\s+(?:tests?\s+)?from\s+(?:file\s+)?(.+)
    Cat(<<Words(<<"generate", "create">>), WS1,
          Opt(Cat(<<Lit("test"), Opt(Lit("s")), WS1>>)),
          Lit("from"), WS1, OptWord("file"), Target>>),
    \* (?:convert|transform)\s+(?:file\s+)?(.+)\s+to\s+(?:playwright\s+)?tests?
    Cat(<<Words(<<"convert", "transform">>), WS1, OptWord("file"), Target, WS1,
          Lit("to"), WS1, OptWord("playwright"), Lit("test"), Opt(Lit("s"))>>) >>

CodeReviewPatterns == <<
    \* (?:review|check)\s+(?:code\s+)?(?:in\s+)?(.+)
    Cat(<<Words(<<"review", "check">>), WS1, OptWord("code"), OptWord("in"), Target>>),
    \* code\s+review\s+(?:for\s+)?(.+)
    Cat(<<Lit("code"), WS1, Lit("review"), WS1, OptWord("for"), Target>>) >>

MarkerRunPatterns == <<
    \* (?:run|add|apply)\s+(?:test\s+)?(?:id|ids|marker)\s+(?:to|for|on)\s+(.+)
    Cat(<<Words(<<"run", "add", "apply">>), WS1, OptWord("test"), IdWord, WS1,
          Words(<<"to", "for", "on">>), WS1, Target>>),
    \* marker\s+(?:run|add)\s+(?:on\s+)?(.+)
    Cat(<<Lit("marker"), WS1, Words(<<"run", "add">>), WS1, OptWord("on"), Target>>),
    \* add\s+test\s+ids?\s+(?:to\s+)?(.+)
    Cat(<<Lit("add"), WS1, Lit("test"), WS1, Lit("id"), Opt(Lit("s")), WS1,
          OptWord("to"), Target>>) >>

MarkerPreviewPatterns == <<
    \* (?:preview|show)\s+(?:test\s+)?(?:id|ids|marker)\s+(?:changes?\s+)?(?:for\s+)?(.+)
    Cat(<<Words(<<"preview", "show">>), WS1, OptWord("test"), IdWord, WS1,
          Opt(Cat(<<Lit("change"), Opt(Lit("s")), WS1>>)), OptWord("for"), Target>>),
    \* marker\s+preview\s+(.+)
    Cat(<<Lit("marker"), WS1, Lit("preview"), WS1, Target>>),
    \* dry.?run\s+marker\s+(?:on\s+)?(.+)
    Cat(<<Lit("dry"), Opt(AnyChar), Lit("run"), WS1, Lit("marker"), WS1,
          OptWord("on"), Target>>) >>

MarkerRollbackPatterns == <<
    \* (?:rollback|undo|revert)\s+(?:test\s+)?(?:id|ids|marker)\s+(?:changes?\s+)?(?:for\s+)?(.+)?
    Cat(<<Words(<<"rollback", "undo", "revert">>), WS1, OptWord("test"), IdWord, WS1,
          Opt(Cat(<<Lit("change"), Opt(Lit("s")), WS1>>)), OptWord("for"),
          Opt(Target)>>),
    \* marker\s+rollback\s*(.+)?
    Cat(<<Lit("marker"), WS1, Lit("rollback"), WS0, Opt(Target)>>) >>

MarkerAnalyzePatterns == <<
    \* (?:analyze|scan)\s+(?:project\s+)?(.+)\s+(?:for\s+)?(?:test\s+)?(?:id|ids)
    Cat(<<Words(<<"analyze", "scan">>), WS1, OptWord("project"), Target, WS1,
          OptWord("for"), OptWord("test"), Words(<<"id", "ids">>)>>),
    \* marker\s+analyze\s+(.+)
    Cat(<<Lit("marker"), WS1, Lit("analyze"), WS1, Target>>) >>

HelpPatterns == <<
    \* ^help$
    Cat(<<Bol, Lit("help"), Eol>>),
    \* ^what\s+can\s+you\s+do
    Cat(<<Bol, Lit("what"), WS1, Lit("can"), WS1, Lit("you"), WS1, Lit("do")>>),
    \* ^show\s+commands?$
    Cat(<<Bol, Lit("show"), WS1, Lit("command"), Opt(Lit("s")), Eol>>) >>

ExitPatterns == <<
    \* ^(?:exit|quit|bye|stop)$
    Cat(<<Bol, Words(<<"exit", "quit", "bye", "stop">>), Eol>>),
    \* ^close\s+synapse$
    Cat(<<Bol, Lit("close"), WS1, Lit("synapse"), Eol>>) >>

\* the PATTERNS dict: its items in insertion order
PATTERNS == <<
    [type |-> "GENERATE_SCENARIOS",  patterns |-> GenerateScenariosPatterns],
    [type |-> "GENERATE_PLAYWRIGHT", patterns |-> GeneratePlaywrightPatterns],
    [type |-> "DICTATE_SCENARIO",    patterns |-> DictateScenarioPatterns],
    [type |-> "GENERATE_FROM_FILE",  patterns |-> GenerateFromFilePatterns],
    [type |-> "CODE_REVIEW",         patterns |-> CodeReviewPatterns],
    [type |-> "MARKER_RUN",          patterns |-> MarkerRunPatterns],
    [type |-> "MARKER_PREVIEW",      patterns |-> MarkerPreviewPatterns],
    [type |-> "MARKER_ROLLBACK",     patterns |-> MarkerRollbackPatterns],
    [type |-> "MARKER_ANALYZE",      patterns |-> MarkerAnalyzePatterns],
    [type |-> "HELP",                patterns |-> HelpPatterns],
    [type |-> "EXIT",                patterns |-> ExitPatterns] >>

-----------------------------------------------------------------------------
(* CommandParser.parse                                                     *)

ParsedCommand(t, tgt, params, raw) ==
    [command_type |-> t, target |-> tgt, parameters |-> params, raw_text |-> raw]

\* ParsedCommand.parameters: None, or a dict over the four keys the enhancer
\* sets; a key the dict does not hold maps to None
NoneParameters == [dict |-> FALSE, category |-> None, priority |-> None,
                   includes_validation |-> None, test_type |-> None]

EmptyDict == [NoneParameters EXCEPT !.dict = TRUE]

NoCommand == ParsedCommand(None, None, NoneParameters, None)

\* a dict whose first and seventh items are exchanged: MARKER_PREVIEW is
\* inserted first, GENERATE_SCENARIOS seventh
PatternsPreviewFirst ==
    [i \in 1..Len(PATTERNS) |->
        IF i = 1 THEN PATTERNS[7] ELSE IF i = 7 THEN PATTERNS[1] ELSE PATTERNS[i]]

\* compiled_patterns: PATTERNS compiled item by item, so in the same order
CompiledPatterns == PATTERNS

\* a target taken from group 1 as it stands, untrimmed
RawTarget(m, s) == Group1(m, s)

\* target = match.group(1).strip() if match.group(1) else None, for a pattern
\* with a group; None for a pattern without one
TargetOf(m, s) ==
    LET g == Group1(m, s)
    IN  IF g = None \/ g = "" THEN None ELSE Strip(g)

\* an UNKNOWN command that carries no target
UnknownNoTarget(s) == ParsedCommand("UNKNOWN", None, NoneParameters, s)

\* the return after the loops: no pattern matched
UnknownCommand(s) == ParsedCommand("UNKNOWN", s, NoneParameters, s)

RECURSIVE ParseLoop(_, _, _, _, _)
\* the two nested for loops of parse over compiled_patterns, at item ti and
\* pattern pi, having searched the patterns in seen; returns the command and
\* the patterns searched (low is s lower-cased, what IGNORECASE compares)
ParseLoop(s, low, ti, pi, seen) ==
    IF ti > Len(CompiledPatterns)
    THEN [cmd |-> UnknownCommand(s), tried |-> seen]
    ELSE IF pi > Len(CompiledPatterns[ti].patterns)
    THEN ParseLoop(s, low, ti + 1, 1, seen)
    ELSE LET m == SearchLowered(CompiledPatterns[ti].patterns[pi], low)
             now == Append(seen, <<CompiledPatterns[ti].type, pi>>)
         IN  IF m.found
             THEN [cmd |-> ParsedCommand(CompiledPatterns[ti].type, TargetOf(m, s),
                                         NoneParameters, s),
                   tried |-> now]
             ELSE ParseLoop(s, low, ti, pi + 1, now)

\* parse without its early return for an empty text
ParseNoEmptyCheck(t) == ParseLoop(Strip(t), Lower(Strip(t)), 1, 1, <<>>)

\* CommandParser.parse(text)
Parse(t) ==
    LET s == Strip(t)
    IN  IF s = ""
        THEN [cmd |-> ParsedCommand("UNKNOWN", None, NoneParameters, s), tried |-> <<>>]
        ELSE ParseLoop(s, Lower(s), 1, 1, <<>>)

-----------------------------------------------------------------------------
(* CommandEnhancer.enhance                                                 *)

\* `not x` for an Optional[str]
Falsy(x) == x = None \/ x = ""

\* any(word in target_lower for word in ws)
AnyWordIn(low, ws) == \E w \in ws : Contains(low, w)

\* the authentication words without "login"
AuthWordsNoLogin == {"auth", "signin", "signup", "register", "password"}

AuthWords == {"login", "auth", "signin", "signup", "register", "password"}
CommerceWords == {"cart", "checkout", "payment", "order", "product"}
FormWords == {"form", "input", "validation", "submit"}
NavigationWords == {"navigation", "menu", "link", "route", "page"}
ApiWords == {"api", "request", "response", "endpoint"}

\* an enhancer whose first matching group decides the category
EnhanceParametersFirstWins(low) ==
    LET p0 == EmptyDict
        p1 == IF AnyWordIn(low, ApiWords)
              THEN [p0 EXCEPT !.category = "api", !.test_type = "api"] ELSE p0
        p2 == IF AnyWordIn(low, NavigationWords)
              THEN [p1 EXCEPT !.category = "navigation"] ELSE p1
        p3 == IF AnyWordIn(low, FormWords)
              THEN [p2 EXCEPT !.category = "forms", !.includes_validation = "True"] ELSE p2
        p4 == IF AnyWordIn(low, CommerceWords)
              THEN [p3 EXCEPT !.category = "e-commerce", !.priority = "high"] ELSE p3
        p5 == IF AnyWordIn(low, AuthWords)
              THEN [p4 EXCEPT !.category = "authentication", !.priority = "high"] ELSE p4
    IN  p5

\* the five `if any(...)` statements, each overwriting what the ones before set
EnhanceParameters(low) ==
    LET p0 == EmptyDict
        p1 == IF AnyWordIn(low, AuthWords)
              THEN [p0 EXCEPT !.category = "authentication", !.priority = "high"] ELSE p0
        p2 == IF AnyWordIn(low, CommerceWords)
              THEN [p1 EXCEPT !.category = "e-commerce", !.priority = "high"] ELSE p1
        p3 == IF AnyWordIn(low, FormWords)
              THEN [p2 EXCEPT !.category = "forms", !.includes_validation = "True"] ELSE p2
        p4 == IF AnyWordIn(low, NavigationWords)
              THEN [p3 EXCEPT !.category = "navigation"] ELSE p3
        p5 == IF AnyWordIn(low, ApiWords)
              THEN [p4 EXCEPT !.category = "api", !.test_type = "api"] ELSE p4
    IN  p5

\* an enhancer that detects nothing for a command that already has a mapping
EnhanceOnce(cmd) ==
    IF Falsy(cmd.target) THEN cmd
    ELSE IF cmd.parameters.dict THEN [cmd EXCEPT !.parameters = EmptyDict]
    ELSE [cmd EXCEPT !.parameters = EnhanceParameters(Lower(cmd.target))]

\* CommandEnhancer.enhance(command)
Enhance(cmd) ==
    IF Falsy(cmd.target) THEN cmd
    ELSE [cmd EXCEPT !.parameters = EnhanceParameters(Lower(cmd.target))]

-----------------------------------------------------------------------------
(* OutputWriter file names and pathlib                                     *)

\* \w of the regex in _sanitize_filename
IsWordChar(c) ==
    c \in CharsOf(UpperChars) \cup CharsOf(LowerChars) \cup CharsOf(DigitChars) \cup {"_"}

RECURSIVE RemoveSpecial(_, _)
\* re.sub(r'[^\w\s-]', '', name)
RemoveSpecial(s, i) ==
    IF i > Len(s) THEN ""
    ELSE LET c == CharAt(s, i)
         IN  (IF IsWordChar(c) \/ IsSpace(c) \/ c = "-" THEN c ELSE "")
             \o RemoveSpecial(s, i + 1)

RECURSIVE SpacesToUnderscore(_, _)
\* re.sub(r'\s+', '_', name)
SpacesToUnderscore(s, i) ==
    IF i > Len(s) THEN ""
    ELSE IF IsSpace(CharAt(s, i))
    THEN "_" \o SpacesToUnderscore(s, i + RunLen("space", s, i - 1) )
    ELSE CharAt(s, i) \o SpacesToUnderscore(s, i + 1)

\* the longest file name stem _sanitize_filename returns
MaxFilenameLen == 50

\* OutputWriter._sanitize_filename(name)
SanitizeFilename(name) ==
    LET clean == Lower(SpacesToUnderscore(RemoveSpecial(name, 1), 1))
    IN  SubSeq(clean, 1, IF Len(clean) < MaxFilenameLen THEN Len(clean) ELSE MaxFilenameLen)

\* the file OutputWriter.save_scenarios(content, name) writes
FeatureFile(name) == SanitizeFilename(name) \o ".feature"
\* the file OutputWriter.save_playwright_tests(content, name) writes
SpecFile(name) == SanitizeFilename(name) \o ".spec.ts"
\* the file OutputWriter.save_review(content, name) writes
ReviewFile(name) == SanitizeFilename(name) \o "_review.md"

\* what the three save methods print
ScenariosSaved(name) == "Scenarios saved to: " \o FeatureFile(name)
TestsSaved(name) == "Playwright tests saved to: " \o SpecFile(name)
ReviewSaved(name) == "Review saved to: " \o ReviewFile(name)

\* Path(p).name: what follows the last "/"
PathName(p) ==
    LET slashes == {i \in 1..Len(p) : CharAt(p, i) = "/"}
    IN  IF slashes = {} THEN p
        ELSE SubSeq(p, (CHOOSE i \in slashes : \A j \in slashes : j <= i) + 1, Len(p))

\* Path(p).stem: the name without its last suffix
PathStem(p) ==
    LET n == PathName(p)
        dots == {i \in 2..Len(n) : CharAt(n, i) = "."}
    IN  IF dots = {} THEN n
        ELSE SubSeq(n, 1, (CHOOSE i \in dots : \A j \in dots : j <= i) - 1)

\* the fence of a markdown code block, three backquotes; a TLA+ string cannot
\* hold a backquote, which is written ^ here ("^" occurs in no modelled text)
Fence == "^^^"

\* the offsets at which w occurs in s
Occurrences(s, w) == {i \in 0..(Len(s) - Len(w)) : SubSeq(s, i + 1, i + Len(w)) = w}

Least(S) == CHOOSE i \in S : \A j \in S : i <= j

\* re.search(opening + r"(.*?)```", content, re.DOTALL): the leftmost opening
\* that a fence follows, and group 1 up to the first such fence
SearchBlock(content, opening) ==
    LET fences == Occurrences(content, Fence)
        starts == {i \in Occurrences(content, opening) :
                       \E j \in fences : j >= i + Len(opening)}
    IN  IF starts = {} THEN [found |-> FALSE, group |-> None]
        ELSE LET first == Least(starts) + Len(opening)
             IN  [found |-> TRUE,
                  group |-> SubSeq(content, first + 1,
                                   Least({j \in fences : j >= first}))]

\* the three patterns of _extract_code_block, without the group and the
\* closing fence
BlockOpenings(language) ==
    <<Fence \o language \o "\n", Fence \o Lower(language) \o "\n", Fence \o "\n">>

RECURSIVE ExtractFrom(_, _, _)
\* `for pattern in patterns` from pattern p on
ExtractFrom(content, openings, p) ==
    IF p > Len(openings) THEN Strip(content)
    ELSE LET match == SearchBlock(content, openings[p])
         IN  IF match.found THEN Strip(match.group)
             ELSE ExtractFrom(content, openings, p + 1)

\* an extraction that keeps the whole content
ExtractCodeBlockWhole(content, language) == Strip(content)

\* OutputWriter._extract_code_block(content, language)
ExtractCodeBlock(content, language) == ExtractFrom(content, BlockOpenings(language), 1)

\* a writer that keeps a file that exists
WriteFileOnce(files, filename, t) ==
    IF \E f \in files : f.name = filename THEN files
    ELSE files \cup {[name |-> filename, text |-> t]}

\* open(filepath, 'w').write(text) in a directory that holds `files`
WriteFile(files, filename, t) ==
    {f \in files : f.name # filename} \cup {[name |-> filename, text |-> t]}

\* OutputWriter.read_file(filename): the text of the file, None when there is none
ReadOf(files, filename) ==
    IF \E f \in files : f.name = filename
    THEN (CHOOSE f \in files : f.name = filename).text
    ELSE None

NoRead == [filename |-> None, text |-> None]

\* datetime.now().isoformat() at clock value now
IsoFormat(now) == "2026-11-01T09:00:00.00000" \o ToString(now)

\* what save_review(content, name) writes at clock value now
ReviewText(content, name, now) ==
    "# Code Review: " \o name \o "\n\n" \o "Generated: " \o IsoFormat(now) \o "\n\n" \o content

\* the three save methods
SaveMethods == {"save_scenarios", "save_playwright_tests", "save_review"}

\* the output directory after OutputWriter.<op>(content, name) at clock value now
SaveTo(files, op, content, name, now) ==
    CASE op = "save_scenarios" ->
             WriteFile(files, FeatureFile(name), ExtractCodeBlock(content, "gherkin"))
      [] op = "save_playwright_tests" ->
             WriteFile(files, SpecFile(name), ExtractCodeBlock(content, "typescript"))
      [] op = "save_review" ->
             WriteFile(files, ReviewFile(name), ReviewText(content, name, now))

\* an output directory nothing was saved to
NoWriter == [content |-> None, parts |-> <<>>, files |-> {}, read |-> NoRead]

-----------------------------------------------------------------------------
(* The remote service clients: src/grpc_clients.py, the marker client of   *)
(* the dispatcher in src/src/grpc_client/marker_client.py, and the tool    *)
(* functions of src/agents.py that use a client in a with-block            *)

\* the error text of a marking service answer with success = false
RemoteErrorText == "disk full"
\* e.details() and e.code() of a grpc.RpcError
RpcDetails == "failed to connect to all addresses"
RpcCode == "StatusCode.UNAVAILABLE"

\* the three client classes of src/grpc_clients.py
ClientClasses == {"ScoutClient", "GolemClient", "MarkerClient"}
\* the client class of src/src/grpc_client/marker_client.py
DispatcherClient == "marker_client.MarkerClient"

\* the request methods of a client class
MethodsOf(class) ==
    CASE class = "ScoutClient"    -> {"generate_scenarios"}
      [] class = "GolemClient"    -> {"generate_tests", "run_tests"}
      [] class = "MarkerClient"   -> {"add_test_ids", "rollback"}
      [] class = DispatcherClient -> {"run_marker", "preview_changes", "rollback",
                                      "analyze_project", "run_marker_stream"}

\* the tool functions of src/agents.py: the client class each one uses in its
\* with-block and the request method it calls
Tools ==
    [ generate_scenarios |-> [class |-> "ScoutClient",  method |-> "generate_scenarios"],
      generate_tests     |-> [class |-> "GolemClient",  method |-> "generate_tests"],
      run_tests          |-> [class |-> "GolemClient",  method |-> "run_tests"],
      add_test_ids       |-> [class |-> "MarkerClient", method |-> "add_test_ids"] ]

\* what a remote call does: the service answers success = true (success) or
\* success = false (failure), the transport raises grpc.RpcError (rpc_error),
\* or building the request message raises TypeError (other_error)
Outcomes == {"success", "failure", "rpc_error", "other_error"}

\* the most channels a behaviour creates
MaxChannels == 3

\* what a call gave its caller: kind is ServiceResult, dict, None (the method
\* returned nothing) or exception; success is "True" or "False"; data is
\* "dict" when the result holds data; error is the error text
Returned(kind, success, data, error) ==
    [kind |-> kind, success |-> success, data |-> data, error |-> error]

\* ServiceResult(success, data = None, error = "")
ServiceResult(success, data, error) == Returned("ServiceResult", success, data, error)

Raised(exception) == Returned("exception", None, None, exception)

\* the body of every request method of the classes of src/grpc_clients.py:
\* stub is whether self.stub is set
ServiceRequest(stub, outcome) ==
    IF outcome = "other_error" THEN Raised("TypeError")
    ELSE IF ~stub THEN Raised("AttributeError")
    ELSE CASE outcome = "success" -> ServiceResult("True", "dict", "")
           [] outcome = "failure" -> ServiceResult("False", "dict", RemoteErrorText)
           [] outcome = "rpc_error" ->
                  ServiceResult("False", None,
                                "gRPC error: " \o RpcCode \o " - " \o RpcDetails)

\* a dict that drops the error text of the service's answer
MarkerAnswerNoMessage(rpc) ==
    [success |-> rpc = "success", error_message |-> ""]

\* the dict a request method of the dispatcher's marker client returns: rpc
\* is what the remote call did
MarkerAnswer(rpc) ==
    CASE rpc = "success"   -> [success |-> TRUE,  error_message |-> ""]
      [] rpc = "failure"   -> [success |-> FALSE, error_message |-> RemoteErrorText]
      [] rpc = "rpc_error" -> [success |-> FALSE, error_message |-> "gRPC error: " \o RpcDetails]

\* the request methods of the dispatcher's marker client, once connected
MarkerRequest(method, outcome) ==
    IF outcome = "other_error" THEN Raised("TypeError")
    ELSE IF method = "run_marker_stream" THEN Returned("None", None, None, None)
    ELSE LET ans == MarkerAnswer(outcome)
         IN  Returned("dict", IF ans.success THEN "True" ELSE "False",
                      IF outcome = "rpc_error" THEN None ELSE "dict", ans.error_message)

Channel(owner) == [owner |-> owner, open |-> TRUE]

\* a close that leaves the channel open
CloseNothing(chs, ch) == chs

\* close() and disconnect(): `if self.channel: self.channel.close()`, with ch
\* the index of self.channel, 0 for None
Close(chs, ch) ==
    IF ch # 0 THEN [chs EXCEPT ![ch].open = FALSE] ELSE chs

\* the client object of __init__: no channel, no stub
NewClient(class) == [class |-> class, channel |-> 0, stub |-> FALSE]

\* what the caller of the last call holds: via is how the client was used
\* (with: a with-block of a tool function, client: a kept client object),
\* exit how the with-block was left
CallResult(via, class, method, outcome, r, exit) ==
    [via |-> via, class |-> class, method |-> method, outcome |-> outcome,
     kind |-> r.kind, success |-> r.success, data |-> r.data, error |-> r.error,
     exit |-> exit]

NoResult ==
    CallResult(None, None, None, None, Returned(None, None, None, None), None)

ClientsIdle ==
    /\ available = ClientClasses
    /\ channels = <<>>
    /\ client = NewClient(DispatcherClient)
    /\ lastResult = NoResult

-----------------------------------------------------------------------------
(* Voice input: the continuous listen loops                                *)

\* the two classes that have a listen_continuous, and the default of its
\* stop_phrase parameter
ListenerClasses == {"voice_input.VoiceInput", "transcriber.VoiceTranscriber"}

StopPhraseOf(class) ==
    IF class = "voice_input.VoiceInput" THEN "stop" ELSE "stop listening"

\* VoiceInput.listen: the VoiceResult of one call
VoiceResult(status, t, error) == [status |-> status, text |-> t, error |-> error]

\* what the speech engine can recognize
Utterances == {"run tests", "please STOP", "Stop listening now", ""}

VoiceResults ==
    {VoiceResult("success", t, "") : t \in Utterances}
        \cup {VoiceResult("timeout", "", "No speech detected within timeout"),
              VoiceResult("error", "", "Could not understand audio")}

\* VoiceTranscriber.listen: the recognized text, None on a timeout or an error
Transcribed(result) == IF result.status = "success" THEN result.text ELSE None

\* what a callback can return
CallbackReturns == {"True", "False"}

\* `not x` for what a callback returns
NotReturned(ret) == ret # "True"

\* stop_phrase.lower() in text.lower()
HasStopPhrase(stop_phrase, t) == Contains(Lower(t), Lower(stop_phrase))

\* a loop that has just been entered: the results listen gave it so far, the
\* arguments and the returns of its callback invocations, what it printed
NewListener(class) ==
    [class |-> class, stop_phrase |-> StopPhraseOf(class), running |-> TRUE,
     heard |-> <<>>, invoked |-> <<>>, returns |-> <<>>,
     console |-> <<"Continuous listening mode. Say '" \o StopPhraseOf(class)
                      \o (IF class = "voice_input.VoiceInput" THEN "' to exit."
                                                               ELSE "' to stop.")>>]

NoListener ==
    [class |-> None, stop_phrase |-> None, running |-> FALSE,
     heard |-> <<>>, invoked |-> <<>>, returns |-> <<>>, console |-> <<>>]

\* one iteration of VoiceInput.listen_continuous: result is what listen gave,
\* ret what the callback returns if it is invoked
VoiceInputIteration(l, result, ret) ==
    LET h == [l EXCEPT !.heard = Append(@, result)]
    IN  IF result.status = "success"
        THEN IF HasStopPhrase(l.stop_phrase, result.text)
             THEN [h EXCEPT !.running = FALSE,
                            !.console = Append(@, "Stop phrase detected. Exiting.")]
             ELSE [h EXCEPT !.invoked = Append(@, result.text),
                            !.returns = Append(@, ret),
                            !.running = ~NotReturned(ret)]
        ELSE IF result.status = "timeout"
        THEN h
        ELSE [h EXCEPT !.console = Append(@, "Error: " \o result.error)]

\* one iteration of VoiceTranscriber.listen_continuous
TranscriberIteration(l, result, ret) ==
    LET h == [l EXCEPT !.heard = Append(@, result)]
        t == Transcribed(result)
    IN  IF ~Falsy(t)
        THEN IF HasStopPhrase(l.stop_phrase, t)
             THEN [h EXCEPT !.running = FALSE,
                            !.console = Append(@, "Stopping continuous listening.")]
             ELSE [h EXCEPT !.invoked = Append(@, t), !.returns = Append(@, ret)]
        ELSE h

Iteration(l, result, ret) ==
    IF l.class = "voice_input.VoiceInput"
    THEN VoiceInputIteration(l, result, ret)
    ELSE TranscriberIteration(l, result, ret)

\* the iterations a loop is followed for
MaxHeard == 3

\* no save call was made yet: the clock of datetime.now(), the last save
\* (method, name, content) and the times it was made in a row
NoSaves == [now |-> 0, op |-> None, name |-> None, content |-> None, times |-> 0]

\* the five tasks of a live voice session
LiveTasks == {"send_text", "send_realtime", "listen_audio", "receive_audio", "play_audio"}

\* asyncio.Queue(maxsize=5) of run
OutQueueMax == 5

\* what the microphone, the server and the devices do in one session: the
\* chunks captured, the audio chunks and the turn ends the server sends, and
\* whether connections and devices can fail
Limits(captures, arrivals, turns, faults) ==
    [captures |-> captures, arrivals |-> arrivals, turns |-> turns, faults |-> faults]

\* SynapseLive.__init__: not running, no session, no task created.  A queue
\* is the sequence of the chunks it holds, a chunk the number of its capture
\* or arrival; holding and playing are the chunk a task has taken (0: none)
NoLive ==
    [running |-> FALSE, run |-> "idle", session |-> None,
     tasks |-> [t \in LiveTasks |-> "none"],
     out_queue |-> <<>>, ready |-> <<>>, captured |-> 0, dropped |-> {},
     holding |-> 0, sent |-> <<>>,
     audio_in_queue |-> <<>>, arrived |-> 0, turns |-> 0, flushed |-> {},
     playing |-> 0, played |-> <<>>,
     typed |-> None, stopped |-> {},
     limits |-> Limits(0, 0, 0, FALSE)]

\* a full queue that takes the chunk all the same
OfferAlways(q, chunk) == Append(q, chunk)

\* out_queue.put_nowait(msg) if not out_queue.full() else None
Offer(q, chunk) == IF Len(q) >= OutQueueMax THEN q ELSE Append(q, chunk)

\* a queue that hands out its newest chunk
TakeNewest(q) == [chunk |-> q[Len(q)], rest |-> SubSeq(q, 1, Len(q) - 1)]

\* queue.get(): the oldest chunk and the queue without it
Take(q) == [chunk |-> Head(q), rest |-> Tail(q)]

\* a turn end that leaves the buffered audio in the queue
FlushNothing(q) == q

\* while not audio_in_queue.empty(): audio_in_queue.get_nowait()
Flush(q) == <<>>

\* the words that end send_text
ExitWords == {"q", "quit", "exit", "stop", "koniec"}

\* what a task does at `while self.running`: go on to `position` or leave
AtLoopHead(running, position) == IF running THEN position ELSE "done"

\* a task is over: it returned, raised or was cancelled
Terminated(status) == status \in {"done", "failed", "cancelled"}

\* VoiceInput.listen was not called
NoListen == <<>>

AdaptersIdle ==
    /\ listener = NoListener
    /\ enhanced = <<>>
    /\ writer = NoWriter
    /\ saves = NoSaves
    /\ live = NoLive
    /\ notified = NoListen

-----------------------------------------------------------------------------
(* The dispatcher: class Synapse and the CLI commands of src/src/main.py   *)

\* what an LLM endpoint call raises when it fails
EndpointError == "503 Service Unavailable"
\* what GeminiClient.__init__ raises without an API key
ConfigError == "GOOGLE_API_KEY not configured"
\* what MarkerClient.__init__ raises when the proto modules are missing
ImportErrorText == "No module named 'marker_pb2'"
\* a call of a collaborator: its operation, its first argument, and the output
\* of an earlier step it is handed as well (None when it is handed none)
Call(op, arg) == [op |-> op, arg |-> arg, context |-> None]

\* the effect of a handler: the two lazy handles, what it printed, the
\* collaborator calls it made, the files it wrote, the exception an LLM
\* collaborator raised inside it (None when none did), the exception that
\* left it (None when it returned), and what the marking service did when it
\* was called (None when it was not)
Effect(c, m, con, cl, wr, flt, exc) ==
    [crew |-> c, marker_client |-> m, console |-> con, calls |-> cl,
     writes |-> wr, fault |-> flt, raised |-> exc, answer |-> None]

\* an _init_crew without `if self.crew is None`
InitCrewAlways(c) ==
    [crew |-> "SynapseCrew",
     console |-> <<"Initializing AI agents...", "AI agents ready!">>,
     calls |-> <<Call("SynapseCrew", "")>>, raised |-> None]

\* Synapse._init_crew
InitCrew(c) ==
    IF c # None
    THEN [crew |-> c, console |-> <<>>, calls |-> <<>>, raised |-> None]
    ELSE IF apiKey
    THEN [crew |-> "SynapseCrew",
          console |-> <<"Initializing AI agents...", "AI agents ready!">>,
          calls |-> <<Call("SynapseCrew", "")>>, raised |-> None]
    ELSE [crew |-> None,
          console |-> <<"Initializing AI agents...",
                        "Error: GOOGLE_API_KEY not configured in .env">>,
          calls |-> <<Call("SynapseCrew", "")>>, raised |-> ConfigError]

\* Synapse._init_marker
InitMarker(m) ==
    IF m # None
    THEN [marker_client |-> m, console |-> <<>>, calls |-> <<>>]
    ELSE IF markerProto
    THEN [marker_client |-> "MarkerClient",
          console |-> <<"Connecting to Marker service...", "Marker service connected!">>,
          calls |-> <<Call("MarkerClient", ""), Call("MarkerClient.connect", "")>>]
    ELSE [marker_client |-> None,
          console |-> <<"Connecting to Marker service...",
                        "Failed to connect to Marker: " \o ImportErrorText,
                        "Make sure Marker gRPC server is running">>,
          calls |-> <<Call("MarkerClient", "")>>]

\* response.startswith('y') for the lower-cased reply
SaysYes(reply) == Len(reply) > 0 /\ CharAt(Lower(reply), 1) = "y"

\* Synapse._generate_scenarios(target, context); llm: the endpoint call succeeds
GenerateScenarios(c, m, target, llm) ==
    IF Falsy(target)
    THEN Effect(c, m, <<"Please specify what to generate scenarios for.">>, <<>>, {}, None, None)
    ELSE LET ic == InitCrew(c)
             call == <<Call("crew.generate_scenarios", target)>>
         IN  IF ic.raised # None
             THEN Effect(ic.crew, m, ic.console, ic.calls, {}, ic.raised, ic.raised)
             ELSE IF llm
             THEN Effect(ic.crew, m,
                         ic.console \o <<ScenariosSaved(target), "Generated Scenarios">>,
                         ic.calls \o call \o <<Call("writer.save_scenarios", target)>>,
                         {FeatureFile(target)}, None, None)
             ELSE Effect(ic.crew, m,
                         ic.console \o <<"Error generating scenarios: " \o EndpointError>>,
                         ic.calls \o call, {}, EndpointError, None)

\* GeminiClient.generate: the text the endpoint returns for a call
OutputOf(call) == "<" \o call.op \o "(" \o call.arg \o ")>"

\* a call that is handed the output of an earlier step as its second argument
CallWith(op, arg, context) == [Call(op, arg) EXCEPT !.context = context]

\* a full suite whose steps are handed the target only
FullSuiteTargetOnly(target) ==
    <<Call("scenario_agent.generate", target),
      Call("playwright_agent.generate", target),
      Call("review_agent.review", target)>>

\* SynapseCrew.generate_full_suite(target, context): its three LLM calls,
\* scenario_agent.generate(target, context),
\* playwright_agent.generate(target, scenarios), review_agent.review(playwright_tests)
FullSuite(target) ==
    LET scenarios == Call("scenario_agent.generate", target)
        playwright_tests == CallWith("playwright_agent.generate", target, OutputOf(scenarios))
    IN  <<scenarios, playwright_tests,
          Call("review_agent.review", OutputOf(playwright_tests))>>

\* the lines generate_full_suite prints around its steps
SuiteSteps ==
    <<"Step 1: Generating Scenarios", "Step 2: Generating Playwright Tests",
      "Step 3: Code Review">>
SuiteCompletes ==
    <<"Scenarios complete!", "Playwright tests complete!", "Review complete!">>

\* what generate_full_suite has printed when its first n steps returned and it
\* went on to step `upto` (upto = n: all steps returned)
RECURSIVE SuiteProgress(_, _)
SuiteProgress(n, upto) ==
    IF upto = 0 THEN <<>>
    ELSE SuiteProgress(n, upto - 1)
            \o <<SuiteSteps[upto]>>
            \o (IF upto <= n THEN <<SuiteCompletes[upto]>> ELSE <<>>)

\* the console of generate_full_suite(target) whose step failAt raises (0: none)
FullSuiteConsole(target, failAt) ==
    <<"Full test suite generation for: " \o target>>
        \o (IF failAt = 0 THEN SuiteProgress(Len(SuiteSteps), Len(SuiteSteps))
            ELSE SuiteProgress(failAt - 1, failAt))

\* Synapse._generate_playwright(target, context); reply: the answer to the
\* yes/no question; failAt: the endpoint call of this command that fails (0: none)
GeneratePlaywright(c, m, target, reply, failAt) ==
    IF Falsy(target)
    THEN Effect(c, m, <<"Please specify what to generate tests for.">>, <<>>, {}, None, None)
    ELSE LET ic == InitCrew(c)
             ask == <<"Generate test scenarios first? (yes/no)">>
             failed == <<"Error generating tests: " \o EndpointError>>
             suite == FullSuite(target)
         IN  IF ic.raised # None
             THEN Effect(ic.crew, m, ic.console, ic.calls, {}, ic.raised, ic.raised)
             ELSE IF SaysYes(reply)
             THEN IF failAt = 0
                  THEN Effect(ic.crew, m,
                              ic.console \o ask \o FullSuiteConsole(target, failAt)
                                 \o <<ScenariosSaved(target), TestsSaved(target),
                                      ReviewSaved(target), "Full Test Suite Generated">>,
                              ic.calls \o suite \o <<Call("writer.save_full_suite", target)>>,
                              {FeatureFile(target), SpecFile(target), ReviewFile(target)}, None,
                              None)
                  ELSE Effect(ic.crew, m,
                              ic.console \o ask \o FullSuiteConsole(target, failAt) \o failed,
                              ic.calls \o SubSeq(suite, 1, failAt), {}, EndpointError, None)
             ELSE IF failAt = 0
                  THEN Effect(ic.crew, m,
                              ic.console \o ask
                                 \o <<TestsSaved(target), "Generated Playwright Tests">>,
                              ic.calls \o <<Call("crew.generate_playwright_tests", target),
                                            Call("writer.save_playwright_tests", target)>>,
                              {SpecFile(target)}, None, None)
                  ELSE Effect(ic.crew, m, ic.console \o ask \o failed,
                              ic.calls \o <<Call("crew.generate_playwright_tests", target)>>,
                              {}, EndpointError, None)

\* Synapse._dictate_scenario(); scenario: what was dictated
DictateScenario(c, m, scenario, reply, llm) ==
    LET intro == <<"Dictation mode. Describe your test scenario.">>
    IN  IF Falsy(scenario)
        THEN Effect(c, m, intro, <<>>, {}, None, None)
        ELSE LET asked == intro \o <<"Recorded scenario: " \o scenario,
                                     "Generate Playwright tests from this scenario? (yes/no)">>
                 ic == InitCrew(c)
                 call == <<Call("crew.generate_playwright_tests", "dictated scenario")>>
             IN  IF ~SaysYes(reply)
                 THEN Effect(c, m, asked, <<>>, {}, None, None)
                 ELSE IF ic.raised # None
                 THEN Effect(ic.crew, m, asked \o ic.console, ic.calls, {}, ic.raised, ic.raised)
                 ELSE IF llm
                 THEN Effect(ic.crew, m, asked \o ic.console
                                \o <<TestsSaved("dictated_scenario"), "Generated Tests">>,
                             ic.calls \o call
                                \o <<Call("writer.save_playwright_tests", "dictated_scenario")>>,
                             {SpecFile("dictated_scenario")}, None, None)
                 ELSE Effect(ic.crew, m, asked \o ic.console, ic.calls \o call, {}, EndpointError,
                             EndpointError)

\* Synapse._generate_from_file(filepath); exists: path.exists()
GenerateFromFile(c, m, filepath, exists, llm) ==
    IF Falsy(filepath)
    THEN Effect(c, m, <<"Please specify the file path.">>, <<>>, {}, None, None)
    ELSE IF ~exists
    THEN Effect(c, m, <<"File not found: " \o filepath>>, <<>>, {}, None, None)
    ELSE LET ic == InitCrew(c)
             call == <<Call("crew.generate_playwright_tests",
                            "from file " \o PathName(filepath))>>
         IN  IF ic.raised # None
             THEN Effect(ic.crew, m,
                         ic.console \o <<"Error processing file: " \o ic.raised>>,
                         ic.calls, {}, ic.raised, None)
             ELSE IF llm
             THEN Effect(ic.crew, m, ic.console \o <<TestsSaved(PathStem(filepath)), "Generated Tests">>,
                         ic.calls \o call
                            \o <<Call("writer.save_playwright_tests", PathStem(filepath))>>,
                         {SpecFile(PathStem(filepath))}, None, None)
             ELSE Effect(ic.crew, m,
                         ic.console \o <<"Error processing file: " \o EndpointError>>,
                         ic.calls \o call, {}, EndpointError, None)

\* Synapse._code_review(target)
CodeReview(c, m, target, exists, llm) ==
    IF Falsy(target)
    THEN Effect(c, m, <<"Please specify the file to review.">>, <<>>, {}, None, None)
    ELSE IF ~exists
    THEN Effect(c, m, <<"File not found: " \o target>>, <<>>, {}, None, None)
    ELSE LET ic == InitCrew(c)
             call == <<Call("crew.review_code", target)>>
         IN  IF ic.raised # None
             THEN Effect(ic.crew, m,
                         ic.console \o <<"Error reviewing code: " \o ic.raised>>,
                         ic.calls, {}, ic.raised, None)
             ELSE IF llm
             THEN Effect(ic.crew, m, ic.console \o <<ReviewSaved(PathStem(target)), "Code Review">>,
                         ic.calls \o call \o <<Call("writer.save_review", PathStem(target))>>,
                         {ReviewFile(PathStem(target))}, None, None)
             ELSE Effect(ic.crew, m,
                         ic.console \o <<"Error reviewing code: " \o EndpointError>>,
                         ic.calls \o call, {}, EndpointError, None)

\* a general request that hands the stripped text to the agent set
ProcessGeneralRequestStripped(c, m, t, llm) ==
    LET ic == InitCrew(c)
        call == <<Call("crew.generate_scenarios", Strip(t))>>
    IN  IF ic.raised # None
        THEN Effect(ic.crew, m, ic.console, ic.calls, {}, ic.raised, ic.raised)
        ELSE IF llm
        THEN Effect(ic.crew, m,
                    ic.console \o <<ScenariosSaved("general_request"), "Generated Response">>,
                    ic.calls \o call \o <<Call("writer.save_scenarios", "general_request")>>,
                    {FeatureFile("general_request")}, None, None)
        ELSE Effect(ic.crew, m, ic.console \o <<"Error: " \o EndpointError>>,
                    ic.calls \o call, {}, EndpointError, None)

\* Synapse._process_general_request(text)
ProcessGeneralRequest(c, m, t, llm) ==
    LET ic == InitCrew(c)
        call == <<Call("crew.generate_scenarios", t)>>
    IN  IF ic.raised # None
        THEN Effect(ic.crew, m, ic.console, ic.calls, {}, ic.raised, ic.raised)
        ELSE IF llm
        THEN Effect(ic.crew, m,
                    ic.console \o <<ScenariosSaved("general_request"), "Generated Response">>,
                    ic.calls \o call \o <<Call("writer.save_scenarios", "general_request")>>,
                    {FeatureFile("general_request")}, None, None)
        ELSE Effect(ic.crew, m, ic.console \o <<"Error: " \o EndpointError>>,
                    ic.calls \o call, {}, EndpointError, None)

\* a marker handler that lacks the `if not target` statement
MarkerHandlerNoGuard(c, m, target, rpc, missing, method, doing, done, failed) ==
    LET im == InitMarker(m)
        ans == MarkerAnswer(rpc)
        shown == IF target = None THEN "None" ELSE target
    IN  IF im.marker_client = None
        THEN Effect(c, None, im.console, im.calls, {}, None, None)
        ELSE Effect(c, im.marker_client,
                    im.console \o <<doing \o shown,
                                    IF ans.success THEN done
                                    ELSE failed \o ans.error_message>>,
                    im.calls \o <<Call(method, shown)>>, {}, None, None)

\* the common shape of _marker_run, _marker_preview, _marker_rollback and
\* _marker_analyze: missing is the message for a missing target, method the
\* client method, doing what is printed before the call, done the panel title
\* on success, failed the prefix of the failure message
MarkerHandler(c, m, target, rpc, missing, method, doing, done, failed) ==
    IF Falsy(target)
    THEN Effect(c, m, <<missing>>, <<>>, {}, None, None)
    ELSE LET im == InitMarker(m)
             ans == MarkerAnswer(rpc)
         IN  IF im.marker_client = None
             THEN Effect(c, None, im.console, im.calls, {}, None, None)
             ELSE [Effect(c, im.marker_client,
                          im.console \o <<doing \o target,
                                          IF ans.success THEN done
                                          ELSE failed \o ans.error_message>>,
                          im.calls \o <<Call(method, target)>>, {}, None, None)
                      EXCEPT !.answer = rpc]

\* Synapse._marker_run(target)
MarkerRun(c, m, target, rpc) ==
    MarkerHandler(c, m, target, rpc, "Please specify the project path.",
                  "marker_client.run_marker", "Running Marker on: ",
                  "Marker Complete", "Marker failed: ")

\* Synapse._marker_preview(target)
MarkerPreview(c, m, target, rpc) ==
    MarkerHandler(c, m, target, rpc, "Please specify the project path.",
                  "marker_client.preview_changes", "Previewing Marker changes for: ",
                  "Marker Preview", "Preview failed: ")

\* Synapse._marker_rollback(target)
MarkerRollback(c, m, target, rpc) ==
    MarkerHandler(c, m, target, rpc,
                  "No project specified. Please specify the project path to rollback.",
                  "marker_client.rollback", "Rolling back Marker changes for: ",
                  "Rollback Complete", "Rollback failed: ")

\* Synapse._marker_analyze(target)
MarkerAnalyze(c, m, target, rpc) ==
    MarkerHandler(c, m, target, rpc, "Please specify the project path.",
                  "marker_client.analyze_project", "Analyzing project: ",
                  "Project Analysis", "Analysis failed: ")

\* what the console shows of a command the loop reads and of a one-shot
\* command: the handler called, the target it was given, the exception an LLM
\* collaborator raised inside it and the exception that left it
Handled(via, h, target, e) ==
    [via |-> via, handler |-> h, target |-> target, fault |-> e.fault,
     raised |-> e.raised, answer |-> e.answer]

NoneHandled ==
    [via |-> None, handler |-> None, target |-> None, fault |-> None, raised |-> None,
     answer |-> None]

\* the utterances the interactive loop is given
DispatchInputs ==
    { "generate scenarios for user login",
      "generate playwright tests for checkout flow",
      "dictate scenario",
      "generate tests from features/login.feature",
      "convert   to tests",
      "review code in tests/login.spec.ts",
      "add test ids to /srv/app",
      "show test ids for /app",
      "dry run marker on /path",
      "preview marker changes for /path",
      "rollback marker changes",
      "marker rollback",
      "analyze project for test ids",
      "scan   ids",
      "help",
      "exit",
      "hello world",
      "  hello world ",
      "   ",
      "" }

\* process_command lines 80-81: parse, then enhance
ParsedAndEnhanced == [t \in DispatchInputs |-> Enhance(Parse(t).cmd)]

\* ParsedCommand.__str__
CommandStr(cmd) ==
    "Command: " \o Lower(cmd.command_type) \o ", Target: "
        \o (IF cmd.target = None THEN "None" ELSE cmd.target)

HelpText == "# Available Commands"

\* the handler process_command calls for a command type
HandlerOf ==
    [ GENERATE_SCENARIOS  |-> "_generate_scenarios",
      GENERATE_PLAYWRIGHT |-> "_generate_playwright",
      DICTATE_SCENARIO    |-> "_dictate_scenario",
      GENERATE_FROM_FILE  |-> "_generate_from_file",
      CODE_REVIEW         |-> "_code_review",
      MARKER_RUN          |-> "_marker_run",
      MARKER_PREVIEW      |-> "_marker_preview",
      MARKER_ROLLBACK     |-> "_marker_rollback",
      MARKER_ANALYZE      |-> "_marker_analyze",
      HELP                |-> "get_help_text",
      EXIT                |-> "exit",
      UNKNOWN             |-> "_process_general_request" ]

\* what the environment does during one command: failAt is the LLM endpoint
\* call of the command that raises (0: none), reply the answer to a yes/no
\* question, scenario the dictated text, exists whether the named file
\* exists, rpc what the marking service call does
Environments ==
    [ failAt : 0..Len(FullSuite("")), reply : {"Yes", "no"},
      scenario : {"", "user opens the cart"}, exists : BOOLEAN,
      rpc : {"success", "failure", "rpc_error"} ]

Calm ==
    [failAt |-> 0, reply |-> "no", scenario |-> "", exists |-> FALSE, rpc |-> "success"]

\* the environments that differ in what a command of type ty can observe
EnvironmentsOf(ty) ==
    { e \in Environments :
        /\ (e.failAt > 1 => ty = "GENERATE_PLAYWRIGHT" /\ SaysYes(e.reply))
        /\ (e.failAt > 0 => ty \notin {"MARKER_RUN", "MARKER_PREVIEW", "MARKER_ROLLBACK",
                                       "MARKER_ANALYZE", "HELP", "EXIT"})
        /\ (e.reply # Calm.reply => ty \in {"GENERATE_PLAYWRIGHT", "DICTATE_SCENARIO"})
        /\ (e.scenario # Calm.scenario => ty = "DICTATE_SCENARIO")
        /\ (e.exists # Calm.exists => ty \in {"GENERATE_FROM_FILE", "CODE_REVIEW"})
        /\ (e.rpc # Calm.rpc => ty \in {"MARKER_RUN", "MARKER_PREVIEW",
                                       "MARKER_ROLLBACK", "MARKER_ANALYZE"}) }

\* what process_command gives the loop: the effect of the handler after the
\* line "Parsed: ...", and continue, the value it returns
Dispatched(cmd, t, h) ==
    [effect |-> [h EXCEPT !.console = <<"Parsed: " \o CommandStr(cmd)>> \o @],
     continue |-> cmd.command_type # "EXIT",
     handled |-> Handled("interactive", HandlerOf[cmd.command_type],
                         IF cmd.command_type = "UNKNOWN" THEN t ELSE cmd.target, h)]

\* the general request of an unknown command, after the line that announces it
Announced(g) ==
    [g EXCEPT !.console = <<"Unknown command. Processing as general request...">> \o @]

\* process_command lines 83-124: the handler of the command type of cmd, in
\* environment e
Dispatch(c, m, t, e, cmd, ty, llm) ==
    Dispatched(cmd, t,
        CASE ty = "EXIT" -> Effect(c, m, <<"Goodbye!">>, <<>>, {}, None, None)
          [] ty = "HELP" -> Effect(c, m, <<HelpText>>, <<>>, {}, None, None)
          [] ty = "GENERATE_SCENARIOS" -> GenerateScenarios(c, m, cmd.target, llm)
          [] ty = "GENERATE_PLAYWRIGHT" ->
                 GeneratePlaywright(c, m, cmd.target, e.reply, e.failAt)
          [] ty = "DICTATE_SCENARIO" -> DictateScenario(c, m, e.scenario, e.reply, llm)
          [] ty = "GENERATE_FROM_FILE" -> GenerateFromFile(c, m, cmd.target, e.exists, llm)
          [] ty = "CODE_REVIEW" -> CodeReview(c, m, cmd.target, e.exists, llm)
          [] ty = "MARKER_RUN" -> MarkerRun(c, m, cmd.target, e.rpc)
          [] ty = "MARKER_PREVIEW" -> MarkerPreview(c, m, cmd.target, e.rpc)
          [] ty = "MARKER_ROLLBACK" -> MarkerRollback(c, m, cmd.target, e.rpc)
          [] ty = "MARKER_ANALYZE" -> MarkerAnalyze(c, m, cmd.target, e.rpc)
          [] ty = "UNKNOWN" -> Announced(ProcessGeneralRequest(c, m, t, llm)))

\* the command process_command dispatches
DispatchCommand(c, m, t, e, cmd) ==
    Dispatch(c, m, t, e, cmd, cmd.command_type, e.failAt = 0)

\* Synapse.process_command(text) in environment e
ProcessCommand(c, m, t, e) == DispatchCommand(c, m, t, e, ParsedAndEnhanced[t])

\* Synapse.__init__ at the start of a process
DispatcherIdle ==
    /\ phase = "start"
    /\ apiKey = TRUE
    /\ markerProto = TRUE
    /\ crew = None
    /\ marker_client = None
    /\ console = <<>>
    /\ calls = <<>>
    /\ written = {}
    /\ lastCommand = NoneHandled

Init ==
    /\ text = ""
    /\ command = NoCommand
    /\ tried = <<>>
    /\ phase = "start"
    /\ apiKey \in BOOLEAN
    /\ markerProto \in BOOLEAN
    /\ crew = None
    /\ marker_client = None
    /\ console = <<>>
    /\ calls = <<>>
    /\ written = {}
    /\ lastCommand = NoneHandled
    /\ ClientsIdle
    /\ AdaptersIdle

\* the state after effect e of a command; a one-shot command ends the process,
\* an exception that leaves a command ends it with a traceback
Apply(e, handled, nextPhase) ==
    /\ crew' = e.crew
    /\ marker_client' = e.marker_client
    /\ console' = e.console
    /\ calls' = e.calls
    /\ written' = e.writes
    /\ lastCommand' = handled
    /\ phase' = IF e.raised # None THEN "crashed" ELSE nextPhase
    /\ UNCHANGED <<parserVars, apiKey, markerProto, clientVars, adapterVars>>

\* the CLI command `interactive`: run_interactive prints its banner and waits
\* for input
RunInteractive ==
    /\ phase = "start"
    /\ Apply(Effect(crew, marker_client, <<"Synapse - Voice Commander">>, <<>>, {},
                    None, None),
             NoneHandled, "interactive")

\* `if not self.process_command(text): break`
Continue(p) ==
    Apply(p.effect, p.handled, IF p.continue THEN "interactive" ELSE "exited")

\* one iteration of the loop of run_interactive that reads text t
ReadCommand(t, e) ==
    /\ phase = "interactive"
    /\ IF Falsy(t)
       THEN Apply(Effect(crew, marker_client, <<>>, <<>>, {}, None, None),
                  NoneHandled, "interactive")
       ELSE Continue(ProcessCommand(crew, marker_client, t, e))

\* one iteration of the loop in which get_input raises KeyboardInterrupt
Interrupt ==
    /\ phase = "interactive"
    /\ Apply(Effect(crew, marker_client, <<"Interrupted. Say 'exit' to quit.">>, <<>>,
                    {}, None, None),
             NoneHandled, "interactive")

\* the arguments the one-shot CLI commands are given
CliTargets == {"", "user login", "/srv/app"}
CliFiles == {"", "tests/login.spec.ts"}

\* the CLI command `scenarios TARGET`
CliScenarios(target, e) ==
    /\ phase = "start"
    /\ LET h == GenerateScenarios(None, None, target, e.failAt = 0)
       IN  Apply(h, Handled("scenarios", "_generate_scenarios", target, h), "done")

\* the CLI command `playwright TARGET [--scenarios FILE]`
CliPlaywright(target, scenarios_file, e) ==
    /\ phase = "start"
    /\ IF ~Falsy(scenarios_file)
       THEN LET h == GenerateFromFile(None, None, scenarios_file, e.exists, e.failAt = 0)
            IN  Apply(h, Handled("playwright", "_generate_from_file", scenarios_file, h),
                      "done")
       ELSE LET ic == InitCrew(None)
                call == <<Call("crew.generate_playwright_tests", target)>>
                h == IF ic.raised # None
                     THEN Effect(ic.crew, None, ic.console, ic.calls, {}, ic.raised,
                                 ic.raised)
                     ELSE IF e.failAt = 0
                     THEN Effect(ic.crew, None,
                                 ic.console \o <<TestsSaved(target), "Generated Tests">>,
                                 ic.calls \o call
                                    \o <<Call("writer.save_playwright_tests", target)>>,
                                 {SpecFile(target)}, None, None)
                     ELSE Effect(ic.crew, None, ic.console, ic.calls \o call, {},
                                 EndpointError, EndpointError)
            IN  Apply(h, Handled("playwright", "playwright", target, h), "done")

\* the CLI command `review FILEPATH`
CliReview(filepath, e) ==
    /\ phase = "start"
    /\ LET h == CodeReview(None, None, filepath, e.exists, e.failAt = 0)
       IN  Apply(h, Handled("review", "_code_review", filepath, h), "done")

\* the CLI command `marker PROJECT_PATH [--dry-run]`
CliMarker(project_path, dry_run, e) ==
    /\ phase = "start"
    /\ LET h == IF dry_run THEN MarkerPreview(None, None, project_path, e.rpc)
                ELSE MarkerRun(None, None, project_path, e.rpc)
       IN  Apply(h, Handled("marker",
                            IF dry_run THEN "_marker_preview" ELSE "_marker_run",
                            project_path, h), "done")

\* the CLI command `marker-rollback PROJECT_PATH`
CliMarkerRollback(project_path, e) ==
    /\ phase = "start"
    /\ LET h == MarkerRollback(None, None, project_path, e.rpc)
       IN  Apply(h, Handled("marker_rollback", "_marker_rollback", project_path, h),
                 "done")

\* the CLI command `marker-analyze PROJECT_PATH`
CliMarkerAnalyze(project_path, e) ==
    /\ phase = "start"
    /\ LET h == MarkerAnalyze(None, None, project_path, e.rpc)
       IN  Apply(h, Handled("marker_analyze", "_marker_analyze", project_path, h),
                 "done")

Next ==
    \/ RunInteractive
    \/ \E t \in DispatchInputs :
          \E e \in EnvironmentsOf(ParsedAndEnhanced[t].command_type) : ReadCommand(t, e)
    \/ Interrupt
    \/ \E target \in CliTargets :
          \E e \in EnvironmentsOf("GENERATE_SCENARIOS") : CliScenarios(target, e)
    \/ \E target \in CliTargets, scenarios_file \in CliFiles :
          \E e \in EnvironmentsOf("GENERATE_FROM_FILE") :
             CliPlaywright(target, scenarios_file, e)
    \/ \E filepath \in CliFiles :
          \E e \in EnvironmentsOf("CODE_REVIEW") : CliReview(filepath, e)
    \/ \E project_path \in CliTargets, dry_run \in BOOLEAN :
          \E e \in EnvironmentsOf("MARKER_RUN") : CliMarker(project_path, dry_run, e)
    \/ \E project_path \in CliTargets :
          \E e \in EnvironmentsOf("MARKER_ROLLBACK") : CliMarkerRollback(project_path, e)
    \/ \E project_path \in CliTargets :
          \E e \in EnvironmentsOf("MARKER_ANALYZE") : CliMarkerAnalyze(project_path, e)

Spec == Init /\ [][Next]_vars

-----------------------------------------------------------------------------
(* Uses of the remote service clients                                      *)

InitClient ==
    /\ text = ""
    /\ command = NoCommand
    /\ tried = <<>>
    /\ DispatcherIdle
    /\ available \in SUBSET ClientClasses
    /\ channels = <<>>
    /\ client \in {NewClient(class) : class \in ClientClasses \cup {DispatcherClient}}
    /\ lastResult = NoResult
    /\ AdaptersIdle

\* a tool function of src/agents.py: `with XClient() as client:` calls
\* __enter__, which is connect(); the body calls the request method and
\* returns from inside the block, or the request raises; __exit__ calls close()
Tool(tool, outcome) ==
    LET class == Tools[tool].class
        method == Tools[tool].method
    IN  /\ Len(channels) < MaxChannels
        /\ IF class \notin available
           THEN /\ lastResult' = CallResult("with", class, None, None,
                                            Raised("ImportError"), "enter_raised")
                /\ UNCHANGED channels
           ELSE LET entered == Append(channels, Channel("with"))
                    ch == Len(entered)
                    r == ServiceRequest(TRUE, outcome)
                IN  /\ channels' = Close(entered, ch)
                    /\ lastResult' = CallResult("with", class, method, outcome, r,
                                                IF r.kind = "exception" THEN "raise"
                                                ELSE "return")
        /\ UNCHANGED <<client, available, parserVars, dispatcherVars, adapterVars>>

\* connect() on the kept client object
Connect ==
    /\ Len(channels) < MaxChannels
    /\ IF client.class \in ClientClasses /\ client.class \notin available
       THEN /\ lastResult' = CallResult("client", client.class, "connect", None,
                                        Raised("ImportError"), None)
            /\ UNCHANGED <<channels, client>>
       ELSE /\ channels' = Append(channels, Channel("client"))
            /\ client' = [client EXCEPT !.channel = Len(channels) + 1, !.stub = TRUE]
            /\ lastResult' = NoResult
    /\ UNCHANGED <<available, parserVars, dispatcherVars, adapterVars>>

\* close() of src/grpc_clients.py, which keeps self.channel and self.stub, and
\* disconnect() of the dispatcher's marker client, which resets them
Disconnect ==
    /\ channels' = Close(channels, client.channel)
    /\ client' = IF client.class = DispatcherClient /\ client.channel # 0
                 THEN NewClient(client.class) ELSE client
    /\ lastResult' = NoResult
    /\ UNCHANGED <<available, parserVars, dispatcherVars, adapterVars>>

\* a request method called on the kept client object; a call on a closed
\* channel is not answered
Request(method, outcome) ==
    /\ method \in MethodsOf(client.class)
    /\ IF client.class = DispatcherClient
       THEN \* `if not self.stub: self.connect()`
            /\ client.stub \/ Len(channels) < MaxChannels
            /\ channels' = IF client.stub THEN channels
                           ELSE Append(channels, Channel("client"))
            /\ client' = IF client.stub THEN client
                         ELSE [client EXCEPT !.channel = Len(channels) + 1, !.stub = TRUE]
            /\ lastResult' = CallResult("client", client.class, method, outcome,
                                        MarkerRequest(method, outcome), None)
       ELSE /\ (client.stub /\ ~channels[client.channel].open)
                  => outcome \in {"rpc_error", "other_error"}
            /\ lastResult' = CallResult("client", client.class, method, outcome,
                                        ServiceRequest(client.stub, outcome), None)
            /\ UNCHANGED <<channels, client>>
    /\ UNCHANGED <<available, parserVars, dispatcherVars, adapterVars>>

NextClient ==
    \/ \E tool \in DOMAIN Tools, outcome \in Outcomes : Tool(tool, outcome)
    \/ Connect
    \/ Disconnect
    \/ \E method \in MethodsOf(client.class), outcome \in Outcomes : Request(method, outcome)

SpecClient == InitClient /\ [][NextClient]_vars

-----------------------------------------------------------------------------
(* Inputs of the parser                                                    *)

\* the example commands of get_help_text, each with the type of the help
\* section that lists it
HelpExamples == <<
    [text |-> "Generate scenarios for user login",          type |-> "GENERATE_SCENARIOS"],
    [text |-> "Create test scenarios for shopping cart",    type |-> "GENERATE_SCENARIOS"],
    [text |-> "Generate Playwright tests for checkout flow", type |-> "GENERATE_PLAYWRIGHT"],
    [text |-> "Create e2e tests for registration",          type |-> "GENERATE_PLAYWRIGHT"],
    [text |-> "Dictate scenario",                           type |-> "DICTATE_SCENARIO"],
    [text |-> "Generate tests from features/login.feature", type |-> "GENERATE_FROM_FILE"],
    [text |-> "Convert scenarios.md to Playwright tests",   type |-> "GENERATE_FROM_FILE"],
    [text |-> "Review code in tests/login.spec.ts",         type |-> "CODE_REVIEW"],
    [text |-> "Add test ids to /path/to/project",           type |-> "MARKER_RUN"],
    [text |-> "Preview marker changes for /path",           type |-> "MARKER_PREVIEW"],
    [text |-> "Rollback marker changes",                    type |-> "MARKER_ROLLBACK"],
    [text |-> "Analyze project for test ids",               type |-> "MARKER_ANALYZE"],
    [text |-> "help",                                       type |-> "HELP"],
    [text |-> "exit",                                       type |-> "EXIT"] >>

HelpTexts == {HelpExamples[i].text : i \in 1..Len(HelpExamples)}

\* utterances that exercise the remaining patterns and their overlaps
OtherTexts == {
    "make scenarios for cart", "build test scenarios login form",
    "write playwright tests for menu", "build playwright test for api",
    "generate end-to-end tests for payment", "record a test scenario",
    "start dictation", "create from file a.md", "transform file a.md to tests",
    "convert   to tests", "check in x.ts", "code review for x.ts",
    "add test ids to /srv/app", "apply ids to /app", "marker add on /app",
    "add test id /app", "show test ids for /app", "marker preview /app",
    "dry run marker on /path", "dry-run marker /app", "dryrun marker on /app",
    "preview marker changes for /path", "revert test marker changes for /app",
    "undo ids /app", "marker rollback", "marker rollback/app",
    "scan   ids", "scan /app for ids", "marker analyze /app",
    "what can you do now", "show commands", "HELP", "help me", "quit", "Stop",
    "close synapse", "hello world", "exit now", "scenarios" }

\* the words the generated utterances are made of
Vocabulary == <<"scenarios", "review", "preview", "marker", "/app">>

\* the most words a generated utterance holds
MaxWords == 3

RECURSIVE Join(_)
\* " ".join(ws)
Join(ws) ==
    IF ws = <<>> THEN ""
    ELSE IF Len(ws) = 1 THEN ws[1]
    ELSE ws[1] \o " " \o Join(Tail(ws))

GeneratedTexts ==
    UNION {{Join([i \in 1..n |-> Vocabulary[ws[i]]]) : ws \in [1..n -> 1..Len(Vocabulary)]}
           : n \in 1..MaxWords}

\* whitespace a typed line may start or end with
Padding == {"", " ", "\t\n"}

BlankTexts == {l \o r : l \in Padding, r \in Padding}

PaddedTexts == {l \o t \o r : t \in HelpTexts \cup OtherTexts, l \in Padding, r \in Padding}

ParserInputs == BlankTexts \cup PaddedTexts \cup GeneratedTexts

-----------------------------------------------------------------------------
(* The parser as a state machine: one input, then parse                    *)

InitParser ==
    /\ text \in ParserInputs
    /\ command = NoCommand
    /\ tried = <<>>
    /\ DispatcherIdle
    /\ ClientsIdle
    /\ AdaptersIdle

\* command = parser.parse(text)
DoParse ==
    /\ command = NoCommand
    /\ LET r == Parse(text)
       IN  /\ command' = r.cmd
           /\ tried' = r.tried
    /\ UNCHANGED <<text, dispatcherVars, clientVars, adapterVars>>

NextParser == DoParse

SpecParser == InitParser /\ [][NextParser]_vars

-----------------------------------------------------------------------------
(* The continuous listen loops as a state machine                          *)

InitListen ==
    /\ text = ""
    /\ command = NoCommand
    /\ tried = <<>>
    /\ DispatcherIdle
    /\ ClientsIdle
    /\ listener \in {NewListener(class) : class \in ListenerClasses}
    /\ enhanced = <<>>
    /\ writer = NoWriter
    /\ saves = NoSaves
    /\ live = NoLive
    /\ notified = NoListen

\* one turn of `while True` in listen_continuous
Listen(result, ret) ==
    /\ listener.running
    /\ Len(listener.heard) < MaxHeard
    /\ listener' = Iteration(listener, result, ret)
    /\ UNCHANGED <<parserVars, dispatcherVars, clientVars, exceptListener>>

NextListen == \E result \in VoiceResults, ret \in CallbackReturns : Listen(result, ret)

SpecListen == InitListen /\ [][NextListen]_vars

-----------------------------------------------------------------------------
(* Parse then enhance, as process_command does, and enhance again          *)

\* the words the generated targets are made of: one of each keyword group,
\* one that holds the form word inside another word, one of no group
TargetVocabulary ==
    <<"Login", "checkout", "form", "menu", "api", "information", "dashboard">>

\* the most words a generated target holds
MaxTargetWords == 2

GeneratedTargets ==
    UNION {{Join([i \in 1..n |-> TargetVocabulary[ws[i]]])
                : ws \in [1..n -> 1..Len(TargetVocabulary)]}
           : n \in 1..MaxTargetWords}

EnhancerInputs ==
    {"generate scenarios for " \o t : t \in GeneratedTargets}
        \cup {"generate scenarios for user login",
              "generate playwright tests for registration page api", "help", "hello world"}

\* the most calls of enhance on one command
MaxEnhance == 2

InitEnhance ==
    /\ text \in EnhancerInputs
    /\ command = NoCommand
    /\ tried = <<>>
    /\ DispatcherIdle
    /\ ClientsIdle
    /\ AdaptersIdle

\* command = CommandEnhancer.enhance(command); the mapping the command holds
\* after the call is kept for each call
DoEnhance ==
    /\ command # NoCommand
    /\ Len(enhanced) < MaxEnhance
    /\ command' = Enhance(command)
    /\ enhanced' = Append(enhanced, Enhance(command).parameters)
    /\ UNCHANGED <<text, tried, dispatcherVars, clientVars, exceptEnhanced>>

NextEnhance == DoParse \/ DoEnhance

SpecEnhance == InitEnhance /\ [][NextEnhance]_vars

-----------------------------------------------------------------------------
(* The output writer as a state machine: save generated content, read back *)

\* a piece of generated content: prose, or a fenced block with its tag and
\* its inner text
Prose(t) == [kind |-> "prose", tag |-> None, inner |-> t]
Block(tag, inner) == [kind |-> "block", tag |-> tag, inner |-> inner]

\* the markdown text of a piece
Render(part) ==
    IF part.kind = "prose" THEN part.inner
    ELSE Fence \o part.tag \o "\n" \o part.inner \o Fence \o "\n"

RECURSIVE RenderAll(_)
RenderAll(parts) ==
    IF parts = <<>> THEN "" ELSE Render(Head(parts)) \o RenderAll(Tail(parts))

\* the pieces the generated contents are made of
ContentParts ==
    <<Prose("Tests:\n"),
      Block("gherkin", "Feature: A\n"),
      Block("gherkin", "\n  Feature: Cart\n\n"),
      Block("typescript", "  test('a');\n"),
      Block("", "plain\n"),
      Block("Gherkin", "Feature: B\n")>>

\* the most pieces a generated content holds
MaxParts == 3

GeneratedContents ==
    UNION {{[i \in 1..n |-> ContentParts[ps[i]]] : ps \in [1..n -> 1..Len(ContentParts)]}
           : n \in 1..MaxParts}

\* the names content is saved under, and the file names read back
WriterNames == {"User Login"}
ReadNames ==
    {FeatureFile(n) : n \in WriterNames} \cup {SpecFile(n) : n \in WriterNames}
        \cup {"missing.feature"}

InitWriter ==
    /\ text = ""
    /\ command = NoCommand
    /\ tried = <<>>
    /\ DispatcherIdle
    /\ ClientsIdle
    /\ listener = NoListener
    /\ enhanced = <<>>
    /\ saves = NoSaves
    /\ live = NoLive
    /\ notified = NoListen
    /\ writer \in {[NoWriter EXCEPT !.content = RenderAll(parts), !.parts = parts]
                      : parts \in GeneratedContents}

\* writer.save_scenarios(content, name)
SaveScenarios(name) ==
    /\ writer' = [writer EXCEPT !.files =
                      WriteFile(@, FeatureFile(name), ExtractCodeBlock(writer.content, "gherkin"))]
    /\ UNCHANGED <<parserVars, dispatcherVars, clientVars, exceptWriter>>

\* writer.save_playwright_tests(content, name)
SavePlaywrightTests(name) ==
    /\ writer' = [writer EXCEPT !.files =
                      WriteFile(@, SpecFile(name), ExtractCodeBlock(writer.content, "typescript"))]
    /\ UNCHANGED <<parserVars, dispatcherVars, clientVars, exceptWriter>>

\* writer.read_file(filename)
ReadFile(filename) ==
    /\ writer' = [writer EXCEPT !.read =
                      [filename |-> filename, text |-> ReadOf(writer.files, filename)]]
    /\ UNCHANGED <<parserVars, dispatcherVars, clientVars, exceptWriter>>

NextWriter ==
    \/ \E name \in WriterNames : SaveScenarios(name)
    \/ \E name \in WriterNames : SavePlaywrightTests(name)
    \/ \E filename \in ReadNames : ReadFile(filename)

SpecWriter == InitWriter /\ [][NextWriter]_vars

-----------------------------------------------------------------------------
(* Repeated saves: the three save methods with changing content and clock  *)

\* the contents that are saved
SavedContents ==
    {RenderAll(<<ContentParts[2]>>), RenderAll(<<ContentParts[1], ContentParts[4]>>),
     "Looks good."}

\* the most the clock advances, and the most times one save is made in a row
MaxClock == 2
MaxRepeats == 2

InitSave ==
    /\ text = ""
    /\ command = NoCommand
    /\ tried = <<>>
    /\ DispatcherIdle
    /\ ClientsIdle
    /\ listener = NoListener
    /\ enhanced = <<>>
    /\ writer = NoWriter
    /\ saves = NoSaves
    /\ live = NoLive
    /\ notified = NoListen

\* writer.<op>(content, name) while the clock reads `now`
Save(op, content, name, now) ==
    /\ now >= saves.now
    /\ now <= MaxClock
    /\ LET again == saves.op = op /\ saves.content = content /\ saves.name = name
       IN  /\ again => saves.times < MaxRepeats
           /\ saves' = [now |-> now, op |-> op, name |-> name, content |-> content,
                        times |-> IF again THEN saves.times + 1 ELSE 1]
    /\ writer' = [writer EXCEPT !.content = content,
                                !.files = SaveTo(@, op, content, name, now)]
    /\ UNCHANGED <<parserVars, dispatcherVars, clientVars, exceptSaves>>

NextSave ==
    \E op \in SaveMethods, content \in SavedContents, name \in WriterNames, now \in 0..MaxClock :
        Save(op, content, name, now)

SpecSave == InitSave /\ [][NextSave]_vars

-----------------------------------------------------------------------------
(* The live voice session: SynapseLive.run and its five tasks.  A step is  *)
(* what a coroutine does between two awaits; the microphone callback runs  *)
(* on the audio thread                                                     *)

\* the most chunks captured, audio chunks received and turns ended
MaxCaptured == 6
MaxArrived == 3
MaxTurns == 2

\* the sessions followed: a talking user and a silent server, a silent user
\* and a talking server, and a short exchange in which connections and
\* devices can fail
Sessions ==
    {Limits(MaxCaptured, 0, 0, FALSE), Limits(0, MaxArrived, MaxTurns, FALSE),
     Limits(1, 1, 1, TRUE)}

\* what is typed at the prompt; Eof is the end of the input
Eof == "<EOF>"
TypedTexts == {"Q", "koniec", "/srv/app", "", Eof}

InitLive ==
    /\ text = ""
    /\ command = NoCommand
    /\ tried = <<>>
    /\ DispatcherIdle
    /\ ClientsIdle
    /\ listener = NoListener
    /\ enhanced = <<>>
    /\ writer = NoWriter
    /\ saves = NoSaves
    /\ notified = NoListen
    /\ live \in {[NoLive EXCEPT !.limits = s] : s \in Sessions}

LiveStep(l) ==
    /\ live' = l
    /\ UNCHANGED <<parserVars, dispatcherVars, clientVars, exceptLive>>

\* the event loop of asyncio.run(self.run()) is running
LoopRuns == live.run \in {"awaiting", "exiting"}

\* run() up to `await send_text_task`: connect, create the queues and the tasks
Run(connected) ==
    /\ live.run = "idle"
    /\ ~connected => live.limits.faults
    /\ LiveStep(IF connected
                THEN [live EXCEPT !.running = TRUE, !.run = "awaiting", !.session = "open",
                                  !.tasks = [t \in LiveTasks |-> "created"]]
                ELSE [live EXCEPT !.running = FALSE, !.run = "returned"])

\* run(): send_text_task is done, self.running = False, the task group is left
AwaitDone ==
    /\ live.run = "awaiting"
    /\ live.tasks["send_text"] = "done"
    /\ \A t \in LiveTasks : live.tasks[t] # "failed"
    /\ LiveStep([live EXCEPT !.running = FALSE, !.run = "exiting"])

\* run(): every task is over, the session is closed, finally: running = False
Finish ==
    /\ live.run = "exiting"
    /\ \A t \in LiveTasks : live.tasks[t] = "done"
    /\ LiveStep([live EXCEPT !.running = FALSE, !.run = "returned", !.session = "closed"])

\* a task raised: the task group cancels the others, run() prints the
\* traceback and ends
Abort ==
    /\ LoopRuns
    /\ \E t \in LiveTasks : live.tasks[t] = "failed"
    /\ LiveStep([live EXCEPT !.running = FALSE, !.run = "returned", !.session = "closed",
                             !.tasks = [t \in LiveTasks |->
                                           IF Terminated(live.tasks[t]) THEN live.tasks[t]
                                           ELSE "cancelled"]])

\* send_text(): first turn of the loop, up to the prompt
SendTextStart ==
    /\ LoopRuns
    /\ live.tasks["send_text"] = "created"
    /\ LiveStep([live EXCEPT !.tasks["send_text"] = AtLoopHead(live.running, "input")])

\* send_text(): a line was typed at the prompt
Typed(line) ==
    /\ LoopRuns
    /\ live.tasks["send_text"] = "input"
    /\ LiveStep(IF line = Eof
                THEN [live EXCEPT !.typed = line, !.tasks["send_text"] = "done"]
                ELSE IF Lower(line) \in ExitWords
                THEN [live EXCEPT !.typed = line, !.running = FALSE,
                                  !.tasks["send_text"] = "done"]
                ELSE IF line = ""
                THEN [live EXCEPT !.typed = line,
                                  !.tasks["send_text"] = AtLoopHead(live.running, "input")]
                ELSE [live EXCEPT !.typed = line, !.tasks["send_text"] = "sending"])

\* send_text(): session.send(input=text, end_of_turn=True) returned or raised
TextSent(ok) ==
    /\ LoopRuns
    /\ live.tasks["send_text"] = "sending"
    /\ ~ok => live.limits.faults
    /\ LiveStep(IF ok
                THEN [live EXCEPT !.tasks["send_text"] = AtLoopHead(live.running, "input")]
                ELSE [live EXCEPT !.tasks["send_text"] = "done",
                                  !.stopped = @ \cup {"send_text"}])

\* listen_audio(): the input stream is opened and started, or opening it raises
ListenStart(ok) ==
    /\ LoopRuns
    /\ live.tasks["listen_audio"] = "created"
    /\ ~ok => live.limits.faults
    /\ LiveStep(IF ok
                THEN [live EXCEPT !.tasks["listen_audio"] = "sleeping"]
                ELSE [live EXCEPT !.tasks["listen_audio"] = "failed"])

\* listen_audio(): asyncio.sleep(0.1) is over and self.running is false
ListenStop ==
    /\ LoopRuns
    /\ live.tasks["listen_audio"] = "sleeping"
    /\ ~live.running
    /\ LiveStep([live EXCEPT !.tasks["listen_audio"] = "done"])

\* listen_audio.callback on the audio thread: a chunk was captured
Capture ==
    /\ live.tasks["listen_audio"] = "sleeping"
    /\ live.captured < live.limits.captures
    /\ LiveStep([live EXCEPT !.captured = @ + 1,
                             !.ready = IF live.running THEN Append(@, live.captured + 1)
                                       ELSE @])

\* the event loop runs the oldest lambda of call_soon_threadsafe
RunCallback ==
    /\ LoopRuns
    /\ live.ready # <<>>
    /\ LiveStep([live EXCEPT !.ready = Tail(@),
                             !.out_queue = Offer(@, Head(live.ready)),
                             !.dropped = IF Offer(live.out_queue, Head(live.ready))
                                             = live.out_queue
                                         THEN @ \cup {Head(live.ready)} ELSE @])

\* send_realtime(): `while self.running`, then wait_for(out_queue.get(), 0.1)
\* gives a chunk or times out
SendRealtimeLoop ==
    /\ LoopRuns
    /\ live.tasks["send_realtime"] \in {"created", "waiting"}
    /\ LiveStep(IF live.tasks["send_realtime"] = "created"
                THEN [live EXCEPT !.tasks["send_realtime"] = AtLoopHead(live.running, "waiting")]
                ELSE IF live.out_queue # <<>>
                THEN [live EXCEPT !.out_queue = Take(@).rest,
                                  !.holding = Take(live.out_queue).chunk,
                                  !.tasks["send_realtime"] = "sending"]
                ELSE [live EXCEPT !.tasks["send_realtime"] = AtLoopHead(live.running, "waiting")])

\* send_realtime(): session.send(input=msg) returned or raised
ChunkSent(ok) ==
    /\ LoopRuns
    /\ live.tasks["send_realtime"] = "sending"
    /\ ~ok => live.limits.faults
    /\ LiveStep(IF ok
                THEN [live EXCEPT !.sent = Append(@, live.holding), !.holding = 0,
                                  !.tasks["send_realtime"] = AtLoopHead(live.running, "waiting")]
                ELSE [live EXCEPT !.holding = 0, !.tasks["send_realtime"] = "done",
                                  !.stopped = @ \cup {"send_realtime"}])

\* receive_audio(): `while self.running`, then session.receive()
ReceiveStart ==
    /\ LoopRuns
    /\ live.tasks["receive_audio"] = "created"
    /\ LiveStep([live EXCEPT !.tasks["receive_audio"] = AtLoopHead(live.running, "receiving")])

\* receive_audio(): a response with audio data arrived
AudioArrived ==
    /\ LoopRuns
    /\ live.tasks["receive_audio"] = "receiving"
    /\ live.arrived < live.limits.arrivals
    /\ LiveStep([live EXCEPT !.arrived = @ + 1,
                             !.audio_in_queue = Append(@, live.arrived + 1)])

\* receive_audio(): the turn is over; the queue is cleared and the loop goes on
TurnComplete ==
    /\ LoopRuns
    /\ live.tasks["receive_audio"] = "receiving"
    /\ live.turns < live.limits.turns
    /\ LiveStep([live EXCEPT !.turns = @ + 1,
                             !.flushed = @ \cup {live.audio_in_queue[i] :
                                                    i \in 1..(Len(live.audio_in_queue)
                                                              - Len(Flush(live.audio_in_queue)))},
                             !.audio_in_queue = Flush(@),
                             !.tasks["receive_audio"] = AtLoopHead(live.running, "receiving")])

\* receive_audio(): the session raised
ReceiveError ==
    /\ LoopRuns
    /\ live.tasks["receive_audio"] = "receiving"
    /\ live.limits.faults
    /\ LiveStep([live EXCEPT !.tasks["receive_audio"] = "done",
                             !.stopped = @ \cup {"receive_audio"}])

\* play_audio(): the output stream is opened and started, or opening it raises
PlayStart(ok) ==
    /\ LoopRuns
    /\ live.tasks["play_audio"] = "created"
    /\ ~ok => live.limits.faults
    /\ LiveStep(IF ok
                THEN [live EXCEPT !.tasks["play_audio"] = AtLoopHead(live.running, "waiting")]
                ELSE [live EXCEPT !.tasks["play_audio"] = "failed"])

\* play_audio(): wait_for(audio_in_queue.get(), 0.1) gives a chunk or times out
PlayLoop ==
    /\ LoopRuns
    /\ live.tasks["play_audio"] = "waiting"
    /\ LiveStep(IF live.audio_in_queue # <<>>
                THEN [live EXCEPT !.audio_in_queue = Take(@).rest,
                                  !.playing = Take(live.audio_in_queue).chunk,
                                  !.tasks["play_audio"] = "writing"]
                ELSE [live EXCEPT !.tasks["play_audio"] = AtLoopHead(live.running, "waiting")])

\* play_audio(): output_stream.write returned or raised
Played(ok) ==
    /\ LoopRuns
    /\ live.tasks["play_audio"] = "writing"
    /\ ~ok => live.limits.faults
    /\ LiveStep(IF ok
                THEN [live EXCEPT !.played = Append(@, live.playing), !.playing = 0,
                                  !.tasks["play_audio"] = AtLoopHead(live.running, "waiting")]
                ELSE [live EXCEPT !.playing = 0, !.tasks["play_audio"] = "done",
                                  !.stopped = @ \cup {"play_audio"}])

NextLive ==
    \/ \E connected \in BOOLEAN : Run(connected)
    \/ AwaitDone
    \/ Finish
    \/ Abort
    \/ SendTextStart
    \/ \E line \in TypedTexts : Typed(line)
    \/ \E ok \in BOOLEAN : TextSent(ok)
    \/ \E ok \in BOOLEAN : ListenStart(ok)
    \/ ListenStop
    \/ Capture
    \/ RunCallback
    \/ SendRealtimeLoop
    \/ \E ok \in BOOLEAN : ChunkSent(ok)
    \/ ReceiveStart
    \/ AudioArrived
    \/ TurnComplete
    \/ ReceiveError
    \/ \E ok \in BOOLEAN : PlayStart(ok)
    \/ PlayLoop
    \/ \E ok \in BOOLEAN : Played(ok)

SpecLive == InitLive /\ [][NextLive]_vars

\* The event loop runs every coroutine that can go on, a started send or
\* write returns or raises, and the timeouts of wait_for and sleep run out.
\* Nothing makes the user type, the microphone deliver or the server answer.
SpecLiveFair ==
    /\ SpecLive
    /\ WF_vars(AwaitDone) /\ WF_vars(Finish) /\ WF_vars(Abort)
    /\ WF_vars(SendTextStart) /\ WF_vars(\E ok \in BOOLEAN : TextSent(ok))
    /\ WF_vars(\E ok \in BOOLEAN : ListenStart(ok)) /\ WF_vars(ListenStop)
    /\ WF_vars(RunCallback)
    /\ WF_vars(SendRealtimeLoop) /\ WF_vars(\E ok \in BOOLEAN : ChunkSent(ok))
    /\ WF_vars(ReceiveStart)
    /\ WF_vars(\E ok \in BOOLEAN : PlayStart(ok)) /\ WF_vars(PlayLoop)
    /\ WF_vars(\E ok \in BOOLEAN : Played(ok))

-----------------------------------------------------------------------------
(* VoiceInput.listen and its status callback                               *)

\* what happens during one listen: the statement at which it leaves the
\* straight path, the text recognized and the message of the exception
Hearing(ends, t, error) == [ends |-> ends, text |-> t, error |-> error]

Hearings ==
    {Hearing("recognized", t, "") : t \in {"run tests", "Stop"}}
        \cup {Hearing("Microphone", "", "No Default Input Device Available"),
              Hearing("WaitTimeoutError", "", "listening timed out"),
              Hearing("listen", "", "Stream closed"),
              Hearing("UnknownValueError", "", ""),
              Hearing("RequestError", "", "recognition connection failed"),
              Hearing("recognize_google", "", "Bad Request")}

\* `if on_status: on_status(status)`
Notify(statuses, on_status, status) ==
    IF on_status THEN Append(statuses, status) ELSE statuses

\* VoiceInput.listen(on_status=...) during hearing h: the statuses the
\* callback was given, and the VoiceResult returned
VoiceListen(h, on_status) ==
    LET listening == Notify(<<>>, on_status, "listening")
        processing == Notify(listening, on_status, "processing")
    IN  CASE h.ends = "Microphone" ->
                [statuses |-> Notify(<<>>, on_status, "error"),
                 result |-> VoiceResult("error", "", h.error)]
          [] h.ends = "WaitTimeoutError" ->
                [statuses |-> Notify(listening, on_status, "timeout"),
                 result |-> VoiceResult("timeout", "", "No speech detected within timeout")]
          [] h.ends = "listen" ->
                [statuses |-> Notify(listening, on_status, "error"),
                 result |-> VoiceResult("error", "", h.error)]
          [] h.ends = "UnknownValueError" ->
                [statuses |-> processing,
                 result |-> VoiceResult("error", "", "Could not understand audio")]
          [] h.ends = "RequestError" ->
                [statuses |-> processing,
                 result |-> VoiceResult("error", "",
                                        "Speech recognition service error: " \o h.error)]
          [] h.ends = "recognize_google" ->
                [statuses |-> Notify(processing, on_status, "error"),
                 result |-> VoiceResult("error", "", h.error)]
          [] h.ends = "recognized" ->
                [statuses |-> Notify(processing, on_status, "success"),
                 result |-> VoiceResult("success", h.text, "")]

\* the most calls of listen followed
MaxListens == 2

InitStatus ==
    /\ text = ""
    /\ command = NoCommand
    /\ tried = <<>>
    /\ DispatcherIdle
    /\ ClientsIdle
    /\ AdaptersIdle

\* one call of listen, with or without a status callback
ListenOnce(h, on_status) ==
    /\ Len(notified) < MaxListens
    /\ notified' = Append(notified,
                          [on_status |-> on_status, ends |-> h.ends,
                           statuses |-> VoiceListen(h, on_status).statuses,
                           result |-> VoiceListen(h, on_status).result])
    /\ UNCHANGED <<parserVars, dispatcherVars, clientVars, exceptNotified>>

NextStatus == \E h \in Hearings, on_status \in BOOLEAN : ListenOnce(h, on_status)

SpecStatus == InitStatus /\ [][NextStatus]_vars

-----------------------------------------------------------------------------
(* Properties of the parser                                                *)

Parsed == command # NoCommand

\* the input holds nothing but whitespace (or nothing at all)
IsBlank(t) == \A i \in 1..Len(t) : IsSpace(CharAt(t, i))

\* the patterns PATTERNS lists under command type t
PatternsOf(t) ==
    IF \E i \in 1..Len(PATTERNS) : PATTERNS[i].type = t
    THEN PATTERNS[CHOOSE i \in 1..Len(PATTERNS) : PATTERNS[i].type = t].patterns
    ELSE <<>>

\* every pattern as <<type, index in its list>>, by declaration order of
\* CommandType and then by listed order
DeclaredOrder ==
    ConcatAll([i \in 1..Len(CommandTypeOrder) |->
        [pi \in 1..Len(PatternsOf(CommandTypeOrder[i])) |-> <<CommandTypeOrder[i], pi>>]])

\* the positions in DeclaredOrder of the patterns that match s
MatchingAt(s) ==
    LET low == Lower(s)
    IN  {n \in 1..Len(DeclaredOrder) :
            SearchLowered(PatternsOf(DeclaredOrder[n][1])[DeclaredOrder[n][2]], low).found}

MatchingTypes(s) == {DeclaredOrder[n][1] : n \in MatchingAt(s)}

FirstOf(S) == CHOOSE n \in S : \A m \in S : n <= m

\* the trimmed first capture group of a match, None without one
TrimmedGroup(m, s) ==
    IF m.group = NoGroup THEN None
    ELSE Strip(SubSeq(s, m.group[1] + 1, m.group[2]))

\* C1: parse is a priority list. The patterns are searched in declaration
\* order of CommandType and, within a type, in listed order, none twice; and
\* an input that matches patterns of several types gets the type declared
\* first among them.
C1_PriorityList ==
    (Parsed /\ ~IsBlank(text)) =>
        LET types == MatchingTypes(Strip(text))
        IN  /\ Len(tried) <= Len(DeclaredOrder)
            /\ tried = SubSeq(DeclaredOrder, 1, Len(tried))
            /\ types # {} =>
                  command.command_type =
                      CommandTypeOrder[FirstOf({TypeIndex(t) : t \in types})]

\* C1 witness: a parsed input that matches patterns of two types, the later
\* one being MARKER_PREVIEW, and is given the earlier one
C1_Witness ==
    /\ Parsed
    /\ ~IsBlank(text)
    /\ "MARKER_PREVIEW" \in MatchingTypes(Strip(text))
    /\ command.command_type = "CODE_REVIEW"

C3_HelpExamplesClassified ==
    Parsed =>
        \A i \in 1..Len(HelpExamples) :
            text = HelpExamples[i].text => command.command_type = HelpExamples[i].type

\* C4: an empty or whitespace-only input is parsed as UNKNOWN with no target,
\* and no pattern is searched for it.
C4_BlankIsUnknown ==
    (Parsed /\ IsBlank(text)) =>
        /\ command.command_type = "UNKNOWN"
        /\ command.target = None
        /\ tried = <<>>

\* C4 witness: a parsed input of whitespace only
C4_Witness == Parsed /\ IsBlank(text) /\ Len(text) > 1

\* C5 as claimed: an input that is not blank and matches no pattern is parsed
\* as UNKNOWN with the full input text as target.
C5_UnmatchedKeepsFullText ==
    (Parsed /\ ~IsBlank(text) /\ MatchingAt(Strip(text)) = {}) =>
        /\ command.command_type = "UNKNOWN"
        /\ command.target = text

\* C5 amended: an input that is not blank and matches no pattern is parsed as
\* UNKNOWN with the input text, its leading and trailing whitespace removed,
\* as target; every pattern was searched once.
C5_UnmatchedKeepsTrimmedText ==
    (Parsed /\ ~IsBlank(text) /\ MatchingAt(Strip(text)) = {}) =>
        /\ command.command_type = "UNKNOWN"
        /\ command.target = Strip(text)
        /\ command.raw_text = Strip(text)
        /\ tried = DeclaredOrder

\* C5 witness: an unmatched input typed with surrounding whitespace
C5_Witness ==
    /\ Parsed
    /\ text = " hello world\t\n"
    /\ command.command_type = "UNKNOWN"
    /\ command.target = "hello world"

-----------------------------------------------------------------------------
(* Properties of the dispatcher                                            *)

\* the handlers of the intents that require a target
TargetHandlers ==
    {"_generate_scenarios", "_generate_playwright", "_generate_from_file",
     "_code_review", "_marker_run", "_marker_preview", "_marker_rollback",
     "_marker_analyze"}

\* the messages the handlers print for a missing target
MissingTargetMessages ==
    {"Please specify what to generate scenarios for.",
     "Please specify what to generate tests for.",
     "Please specify the file path.",
     "Please specify the file to review.",
     "Please specify the project path.",
     "No project specified. Please specify the project path to rollback."}

Printed(msgs) == \E i \in 1..Len(console) : console[i] \in msgs

PrintedText(w) == \E i \in 1..Len(console) : Contains(console[i], w)

C7_EndpointErrorAbortsOnlyCommand ==
    (lastCommand.via = "interactive" /\ lastCommand.fault = EndpointError) =>
        /\ phase = "interactive"
        /\ lastCommand.raised = None
        /\ PrintedText(EndpointError)

-----------------------------------------------------------------------------
(* Properties of the remote service clients                                *)

\* the last call was a request method whose request reached the transport of
\* a connected client
RequestSent ==
    /\ lastResult.method \in UNION {MethodsOf(c) : c \in ClientClasses \cup {DispatcherClient}}
    /\ lastResult.outcome \in {"success", "failure", "rpc_error"}
    /\ lastResult.kind # "exception"

\* C8: every request method call returns a result whose success field is
\* true or false, and a transport failure gives success = false with the
\* transport's error detail
C8_RequestReturnsExplicitSuccess ==
    RequestSent =>
        /\ lastResult.kind \in {"ServiceResult", "dict"}
        /\ lastResult.success \in {"True", "False"}
        /\ lastResult.outcome = "rpc_error" =>
              /\ lastResult.success = "False"
              /\ Contains(lastResult.error, RpcDetails)

\* C9: a ServiceResult holds data if and only if success is true, and a
\* non-empty error if and only if success is false
C9_ServiceResultNeverPartial ==
    lastResult.kind = "ServiceResult" =>
        /\ lastResult.data # None <=> lastResult.success = "True"
        /\ lastResult.error # "" <=> lastResult.success = "False"

\* C10: every channel a with-block opened on entry is closed once the block
\* has been left, whether its body returned or raised; a block whose entry
\* raised opened no channel
C10_ScopedUseClosesChannel ==
    /\ \A i \in 1..Len(channels) : channels[i].owner = "with" => ~channels[i].open
    /\ (lastResult.via = "with" /\ lastResult.exit # "enter_raised") =>
          /\ channels # <<>>
          /\ channels[Len(channels)] = [owner |-> "with", open |-> FALSE]

\* C10 witness: with-blocks were left by a return and, the last one, by an
\* exception of the request, and the channels they opened are closed
C10_Witness ==
    /\ lastResult.via = "with"
    /\ lastResult.exit = "raise"
    /\ Len(channels) = MaxChannels
    /\ \A i \in 1..Len(channels) : channels[i] = [owner |-> "with", open |-> FALSE]

\* C11: connect is idempotent: however often connect was called on the kept
\* client, the only open channel it created is the one the client refers
\* to; no earlier channel is left open and unreferenced
C11_ConnectIdempotent ==
    \A i \in 1..Len(channels) :
        (channels[i].owner = "client" /\ channels[i].open) => client.channel = i

\* the number of calls of op among the collaborator calls cl of a command
CallCount(cl, op) == Cardinality({i \in 1..Len(cl) : cl[i].op = op})

\* C12: in every step of one dispatcher instance a cached handle (the LLM
\* agent set, the marking-service client) stays the same handle and is not
\* constructed again, and no command constructs either twice
C12_HandlesConstructedOnce ==
    [][ /\ crew # None =>
              (crew' = crew /\ CallCount(calls', "SynapseCrew") = 0)
        /\ marker_client # None =>
              (marker_client' = marker_client /\ CallCount(calls', "MarkerClient") = 0)
        /\ CallCount(calls', "SynapseCrew") <= 1
        /\ CallCount(calls', "MarkerClient") <= 1 ]_vars

\* C12 witness: both handles are cached and the last command, a marker
\* command, used its handle without constructing anything
C12_Witness ==
    /\ phase = "interactive"
    /\ crew = "SynapseCrew"
    /\ marker_client = "MarkerClient"
    /\ CallCount(calls, "marker_client.run_marker") = 1
    /\ CallCount(calls, "MarkerClient") = 0
    /\ CallCount(calls, "SynapseCrew") = 0

\* the calls of the LLM agent set
LLMCalls ==
    {"crew.generate_scenarios", "crew.generate_playwright_tests", "crew.review_code",
     "scenario_agent.generate", "playwright_agent.generate", "review_agent.review"}

\* the LLM calls among the collaborator calls of the last command, in order
LLMCallsMade == SelectSeq(calls, LAMBDA cl : cl.op \in LLMCalls)

C14_RemoteFailureIsPrinted ==
    lastCommand.answer = "failure" =>
        /\ PrintedText(RemoteErrorText)
        /\ written = {}
        /\ CallCount(calls, "writer.save_scenarios") = 0
        /\ CallCount(calls, "writer.save_playwright_tests") = 0
        /\ CallCount(calls, "writer.save_review") = 0
        /\ lastCommand.raised = None

\* C14 witness: the loop ran "add test ids to /srv/app", the service
\* answered success = false with "disk full", and "Marker failed: disk full"
\* was printed
C14_Witness ==
    /\ phase = "interactive"
    /\ lastCommand.handler = "_marker_run"
    /\ lastCommand.target = "/srv/app"
    /\ lastCommand.answer = "failure"
    /\ Printed({"Marker failed: disk full"})
    /\ written = {}

\* the number of full-suite steps that printed their completion line
SuiteCompleted == Cardinality({i \in 1..Len(console) : \E k \in 1..Len(SuiteCompletes) : console[i] = SuiteCompletes[k]})

\* the order of the full suite's endpoint operations
SuiteOrder == <<"scenario_agent.generate", "playwright_agent.generate", "review_agent.review">>

\* C15: a full-suite generation calls the endpoint for scenarios, tests and
\* review in that order; the test step is handed the scenario step's output
\* and the review step the generated tests; when a step raises no later step
\* is called and nothing of the earlier steps is written
C15_FullSuiteOrderAndNoPartialSave ==
    CallCount(calls, SuiteOrder[1]) > 0 =>
        /\ Len(LLMCallsMade) <= Len(SuiteOrder)
        /\ \A i \in 1..Len(LLMCallsMade) : LLMCallsMade[i].op = SuiteOrder[i]
        /\ Len(LLMCallsMade) >= 2 =>
              /\ LLMCallsMade[2].arg = LLMCallsMade[1].arg
              /\ LLMCallsMade[2].context = OutputOf(LLMCallsMade[1])
        /\ Len(LLMCallsMade) >= 3 => LLMCallsMade[3].arg = OutputOf(LLMCallsMade[2])
        /\ lastCommand.fault = None =>
              /\ Len(LLMCallsMade) = Len(SuiteOrder)
              /\ SuiteCompleted = Len(SuiteOrder)
        /\ lastCommand.fault # None =>
              /\ Len(LLMCallsMade) = SuiteCompleted + 1
              /\ written = {}
              /\ CallCount(calls, "writer.save_full_suite") = 0
              /\ ~PrintedText("saved to")
              /\ Printed({"Error generating tests: " \o EndpointError})

\* C15 witness: the second step of a full suite for "checkout flow" raised after
\* the first returned; the third was never called and nothing was written
C15_Witness ==
    /\ lastCommand.handler = "_generate_playwright"
    /\ lastCommand.target = "checkout flow"
    /\ lastCommand.fault = EndpointError
    /\ Len(LLMCallsMade) = 2
    /\ LLMCallsMade[2].context = "<scenario_agent.generate(checkout flow)>"
    /\ SuiteCompleted = 1
    /\ written = {}

-----------------------------------------------------------------------------
(* Properties of the continuous listen loops                               *)

\* the successful results among those heard that hold no stop phrase
Commands(l) ==
    SelectSeq(l.heard, LAMBDA r : r.status = "success" /\ ~HasStopPhrase(l.stop_phrase, r.text))

\* the last result heard is a recognized stop phrase
StopPhraseHeard(l) ==
    /\ Len(l.heard) > 0
    /\ l.heard[Len(l.heard)].status = "success"
    /\ HasStopPhrase(l.stop_phrase, l.heard[Len(l.heard)].text)

\* the last result heard went to the callback, which signalled stop
CallbackStopped(l) ==
    /\ Len(l.heard) > 0
    /\ ~StopPhraseHeard(l)
    /\ l.heard[Len(l.heard)].status = "success"
    /\ Len(l.returns) > 0
    /\ NotReturned(l.returns[Len(l.returns)])

\* C16: the loop has invoked the callback once, in order, for each successful
\* result without the stop phrase and for no other result, and it has ended
\* exactly when the stop phrase was recognized or the callback signalled stop
C16_CallbackPerRecognitionAndStop ==
    listener.class # None =>
        /\ listener.invoked = [i \in 1..Len(Commands(listener)) |-> Commands(listener)[i].text]
        /\ ~listener.running <=> (StopPhraseHeard(listener) \/ CallbackStopped(listener))

-----------------------------------------------------------------------------
(* Properties of the context enhancer                                      *)

\* the keyword groups in the order the enhancer tests them
KeywordGroups ==
    <<[words |-> AuthWords, category |-> "authentication"],
      [words |-> CommerceWords, category |-> "e-commerce"],
      [words |-> FormWords, category |-> "forms"],
      [words |-> NavigationWords, category |-> "navigation"],
      [words |-> ApiWords, category |-> "api"]>>

\* the groups a word of which occurs in the lower-cased target
MatchingGroups(target) ==
    {g \in 1..Len(KeywordGroups) : AnyWordIn(Lower(target), KeywordGroups[g].words)}

LastOf(S) == CHOOSE g \in S : \A h \in S : h <= g

\* the command has a target and was enhanced
Enhanced == command # NoCommand /\ ~Falsy(command.target) /\ enhanced # <<>>

\* C17: when several keyword groups match the target, the category of an
\* enhanced command is that of the last matching group in the order
\* authentication, e-commerce, forms, navigation, API
C17_LastMatchingGroupWins ==
    (Enhanced /\ Cardinality(MatchingGroups(command.target)) >= 2) =>
        command.parameters.category
            = KeywordGroups[LastOf(MatchingGroups(command.target))].category

\* C17 witness: "Login form" matches authentication and forms and is enhanced
\* to the category forms, with the priority of the authentication group
C17_Witness ==
    /\ Enhanced
    /\ command.target = "Login form"
    /\ MatchingGroups(command.target) = {1, 3}
    /\ command.parameters.category = "forms"
    /\ command.parameters.priority = "high"

\* C18: a second run of enhance on the enhanced command gives the parameter
\* mapping the first run gave
C18_EnhanceIdempotent ==
    Len(enhanced) >= 2 => \A i \in 2..Len(enhanced) : enhanced[i] = enhanced[1]

\* C18 witness: "checkout menu" was enhanced twice, both times to navigation
C18_Witness ==
    /\ command # NoCommand
    /\ command.target = "checkout menu"
    /\ Len(enhanced) = 2
    /\ enhanced[1].category = "navigation"
    /\ enhanced[2] = enhanced[1]

\* C19: "generate scenarios for user login", parsed and enhanced, is a
\* GENERATE_SCENARIOS command with target "user login", category
\* "authentication" and priority "high"
C19_UserLoginExample ==
    (text = "generate scenarios for user login" /\ enhanced # <<>>) =>
        /\ command.command_type = "GENERATE_SCENARIOS"
        /\ command.target = "user login"
        /\ command.parameters.dict
        /\ command.parameters.category = "authentication"
        /\ command.parameters.priority = "high"

\* C19 witness: that input was parsed and enhanced once
C19_Witness ==
    /\ text = "generate scenarios for user login"
    /\ Len(enhanced) = 1
    /\ command.target = "user login"
    /\ command.parameters.category = "authentication"

-----------------------------------------------------------------------------
(* Properties of the output writer                                         *)

\* the pieces of the content that are fenced blocks tagged with the language
BlocksOf(parts, language) ==
    {i \in 1..Len(parts) : parts[i].kind = "block" /\ parts[i].tag = language}

\* the file of `name` for a language was read back after content that holds
\* a fenced block of that language was saved to it
ReadBack(filename, language) ==
    /\ writer.read.filename = filename
    /\ writer.read.text # None
    /\ BlocksOf(writer.parts, language) # {}

\* the inner text of the first fenced block of the language, trimmed
TrimmedInner(language) == Strip(writer.parts[Least(BlocksOf(writer.parts, language))].inner)

\* C20: after content that holds a fenced block of the writer's target
\* language was saved, reading the written file back gives the inner text of
\* that block (the first, when there are several), trimmed
C20_WriterRoundTrip ==
    \A name \in WriterNames :
        /\ ReadBack(FeatureFile(name), "gherkin") => writer.read.text = TrimmedInner("gherkin")
        /\ ReadBack(SpecFile(name), "typescript") => writer.read.text = TrimmedInner("typescript")

\* C20 witness: prose, a gherkin block with blank lines around its text and
\* a typescript block were saved as scenarios of "User Login"; the file read
\* back holds "Feature: Cart"
C20_Witness ==
    /\ Len(writer.parts) = 3
    /\ writer.parts[1].kind = "prose"
    /\ writer.parts[2] = Block("gherkin", "\n  Feature: Cart\n\n")
    /\ writer.parts[3].tag = "typescript"
    /\ writer.read = [filename |-> "user_login.feature", text |-> "Feature: Cart"]

-----------------------------------------------------------------------------
(* Properties of repeated saves                                            *)

\* the file a save method writes for a name
SavedFile(op, name) ==
    CASE op = "save_scenarios" -> FeatureFile(name)
      [] op = "save_playwright_tests" -> SpecFile(name)
      [] op = "save_review" -> ReviewFile(name)

FileNames(files) == {f.name : f \in files}

\* a step that makes the save made last once more: same method, name, content
RepeatedSave == saves.times >= 1 /\ saves'.times = saves.times + 1

\* s ends with t
EndsWith(s, t) == Len(t) <= Len(s) /\ SubSeq(s, Len(s) - Len(t) + 1, Len(s)) = t

\* the file of the last save holds what that save was given: the extracted
\* code, or for a review its header and the content
HoldsLastSave(files, sv) ==
    \E f \in files :
        /\ f.name = SavedFile(sv.op, sv.name)
        /\ \A g \in files : g.name = f.name => g = f
        /\ sv.op = "save_scenarios" => f.text = ExtractCodeBlock(sv.content, "gherkin")
        /\ sv.op = "save_playwright_tests" => f.text = ExtractCodeBlock(sv.content, "typescript")
        /\ sv.op = "save_review" =>
              /\ EndsWith(f.text, "\n\n" \o sv.content)
              /\ Contains(f.text, "Generated: " \o IsoFormat(sv.now))

\* C21 as stated: saving the same content under the same name twice leaves
\* the output directory as saving once did, for every save method
C21_EverySaveIdempotent ==
    [][RepeatedSave => writer'.files = writer.files]_vars

\* C21 amended: a save always overwrites the file of its name with what it
\* was given and leaves one file per name; repeating a save leaves the
\* directory unchanged for save_scenarios and save_playwright_tests, and for
\* save_review leaves every other file unchanged and changes the review file
\* only when the clock has advanced (its "Generated:" line)
C21_SaveOverwritesAndRepeats ==
    [][ /\ saves' # saves => HoldsLastSave(writer'.files, saves')
        /\ RepeatedSave =>
              /\ FileNames(writer'.files) = FileNames(writer.files)
              /\ \A f \in writer'.files :
                     f.name # ReviewFile(saves'.name) => f \in writer.files
              /\ saves'.op # "save_review" => writer'.files = writer.files
              /\ saves'.now = saves.now => writer'.files = writer.files ]_vars

\* C21 witness: the review "Looks good." of "User Login" was saved twice in a
\* row, the second time at clock 2; the directory holds the one review file
\* with the later time
C21_Witness ==
    /\ saves.op = "save_review"
    /\ saves.content = "Looks good."
    /\ saves.times = 2
    /\ saves.now = 2
    /\ writer.files = {[name |-> "user_login_review.md",
                        text |-> ReviewText("Looks good.", "User Login", 2)]}

-----------------------------------------------------------------------------
(* The live voice session                                                  *)

ExitTyped == live.typed # None /\ Lower(live.typed) \in ExitWords

AllTerminated == \A t \in LiveTasks : Terminated(live.tasks[t])

\* C22: once an exit word is typed and the running flag is false, each of
\* the five tasks ends and run() returns
C22_ExitEndsEveryTask ==
    (ExitTyped /\ ~live.running) ~> (AllTerminated /\ live.run = "returned")

Increasing(q) == \A i, j \in 1..Len(q) : i < j => q[i] < q[j]

\* C23: the chunks handed to session.send are in the order of their
\* capture, however the capture callback and the send task interleave
C23_SentInCaptureOrder == Increasing(live.sent)

\* three chunks were sent while a later one was already waiting
C23_Witness == Len(live.sent) >= 3 /\ live.out_queue # <<>> /\ live.ready # <<>>

Elements(q) == {q[i] : i \in 1..Len(q)}

\* C24: received chunks are played in the order of their arrival, and the
\* step that ends a turn throws away every chunk still waiting: it leaves
\* the inbound queue empty and no chunk it removed is ever played
C24_PlayedInOrderAndFlushed ==
    /\ [](Increasing(live.played) /\ live.flushed \cap Elements(live.played) = {})
    /\ [][live'.turns = live.turns + 1 =>
              /\ live'.audio_in_queue = <<>>
              /\ live'.flushed = live.flushed \cup Elements(live.audio_in_queue)]_vars

\* two chunks were played, then a turn ended with a chunk still waiting
C24_Witness ==
    /\ Len(live.played) >= 2
    /\ live.flushed # {}
    /\ live.turns >= 1
    /\ live.audio_in_queue = <<>>

\* C25: the outbound queue never holds more than its five chunks, and the
\* step that finds it full drops the chunk: the queue, the tasks and the
\* running flag are as before, and the microphone goes on capturing
C25_OutQueueBounded ==
    /\ [](Len(live.out_queue) <= OutQueueMax)
    /\ [][live'.dropped # live.dropped =>
              /\ Len(live.out_queue) = OutQueueMax
              /\ live'.out_queue = live.out_queue
              /\ live'.tasks = live.tasks
              /\ live'.running = live.running
              /\ live'.dropped = live.dropped \cup {Head(live.ready)}]_vars

\* the sixth chunk met a full queue
C25_Witness ==
    /\ live.dropped # {}
    /\ Len(live.out_queue) = OutQueueMax
    /\ live.tasks["listen_audio"] = "sleeping"

Workers == {"send_realtime", "receive_audio", "play_audio"}

\* C29: the running flag is never true while the send, receive or playback
\* task has already ended
C29_NoWorkerEndedWhileRunning ==
    live.running => \A t \in Workers : ~Terminated(live.tasks[t])

-----------------------------------------------------------------------------
(* Marker utterances and blank input in the interactive loop               *)

\* the text matches one of the patterns of command type ty
MatchesType(t, ty) ==
    \E n \in 1..Len(PATTERNS) :
        /\ PATTERNS[n].type = ty
        /\ \E p \in 1..Len(PATTERNS[n].patterns) :
              Search(PATTERNS[n].patterns[p], Strip(t)).found

PreviewUtterances == {t \in DispatchInputs : MatchesType(t, "MARKER_PREVIEW")}

CallsOp(cs, op) == \E n \in 1..Len(cs) : cs[n].op = op

\* C26: while the loop waits for input, no utterance that matches a
\* MARKER_PREVIEW pattern makes process_command call run_marker
C26_PreviewNeverRunsMarker ==
    phase = "interactive" =>
        \A t \in PreviewUtterances :
            \A e \in EnvironmentsOf(ParsedAndEnhanced[t].command_type) :
                ~CallsOp(ProcessCommand(crew, marker_client, t, e).effect.calls,
                         "marker_client.run_marker")

\* the command the loop handled last was a whitespace-only text
BlankHandled ==
    /\ lastCommand.via = "interactive"
    /\ lastCommand.handler = "_process_general_request"
    /\ IsBlank(lastCommand.target)

\* C27: a whitespace-only text constructs no agent set, calls no endpoint
\* and writes no file
C27_BlankTextCallsNothing ==
    BlankHandled => calls = <<>> /\ written = {}

\* the rollback utterances that name no project path: the example of the
\* help text and the words of the second MARKER_ROLLBACK pattern
PathlessRollbacks == {"rollback marker changes", "marker rollback"} \cap DispatchInputs

NoProjectMessage == "No project specified. Please specify the project path to rollback."

\* C28: while the loop waits for input, a rollback utterance without a path
\* is parsed with target None, is answered with the no-project message and
\* makes no rollback call
C28_PathlessRollbackCallsNothing ==
    phase = "interactive" =>
        \A t \in PathlessRollbacks :
            /\ ParsedAndEnhanced[t].command_type = "MARKER_ROLLBACK"
            /\ ParsedAndEnhanced[t].target = None
            /\ \A e \in EnvironmentsOf("MARKER_ROLLBACK") :
                  LET done == ProcessCommand(crew, marker_client, t, e).effect
                  IN  /\ done.console[Len(done.console)] = NoProjectMessage
                      /\ ~CallsOp(done.calls, "marker_client.rollback")

-----------------------------------------------------------------------------
(* The statuses of VoiceInput.listen                                       *)

FinalStatuses == {"success", "error", "timeout"}

\* the place of a status in the order LISTENING, PROCESSING, final status
StatusRank(status) ==
    CASE status = "listening" -> 1
      [] status = "processing" -> 2
      [] status \in FinalStatuses -> 3

\* the statuses notified follow that order, with at most one final status
InStatusOrder(s) ==
    \A i, j \in 1..Len(s) : i < j => StatusRank(s[i]) < StatusRank(s[j])

\* C30: a listen with a status callback notifies LISTENING, then PROCESSING,
\* then at most one final status, and the last status notified is the
\* status of the result it returns
C30_LastStatusIsResultStatus ==
    \A n \in 1..Len(notified) :
        notified[n].on_status =>
            /\ InStatusOrder(notified[n].statuses)
            /\ notified[n].statuses[Len(notified[n].statuses)] = notified[n].result.status

====
